---- MODULE Spec2Model ----
(***************************************************************************)
(* Download orchestration and quota enforcement of the Viddy downloader:   *)
(* the /download admission path, the background download thread, the      *)
(* cancel and retry handlers (src/app.py), the entitlement check           *)
(* (src/web/monetization/__init__.py), platform identification and the     *)
(* per-platform strategies (src/web/downloaders), and the progress hook of *)
(* the yt-dlp helper (src/web/utils/ytdlp_helper.py).                       *)
(*                                                                         *)
(* Strings that the code inspects character by character (URLs) are        *)
(* sequences of one-character strings.  Time is counted in hours on the    *)
(* UTC clock; byte sizes are counted in MiB.                               *)
(***************************************************************************)
EXTENDS Integers, Sequences, FiniteSets, TLC

VARIABLES
    downloads,   \* the Download table: row id = index
    subs,        \* the Subscription table, in id order
    bg,          \* per row: the background thread started by /download
    cancelReq,   \* per row: a /cancel_download request between its read and its write
    retryReq,    \* per row: a /retry_download request running its extraction
    reqs,        \* requests between the read of their row(s) and their commit, by slot
    now,         \* the UTC clock (datetime.utcnow), in hours
    tz,          \* offset of the server's local clock from UTC, in hours
    suspend,     \* os.environ SUSPEND_YOUTUBE == 'true'
    lastSubmit,  \* the last /download request and how it ended
    decision,    \* the last entitlement decision that was evaluated on its own
    probe,       \* the last call of a pure function evaluated on its own
    ex           \* one call downloader.download(...) of a strategy, followed step by step

vars ==
    <<downloads, subs, bg, cancelReq, retryReq, reqs, now, tz, suspend, lastSubmit, decision, probe, ex>>

(***************************************************************************)
(* Bounds of the model.                                                    *)
(***************************************************************************)
MaxNew == 1          \* rows created by /download in one behaviour
MaxVideoRows == 6    \* video rows of one user in a drawn history
MaxImageRows == 11   \* image rows of one user in a drawn history
MaxInflight == 2     \* requests that can be between their read and their commit

NULL == "NULL"       \* a NULL string column / Python None
NoSize == 0 - 1      \* a NULL size column
NoExpiry == 0 - 1    \* a NULL expires_at column
NoStamp == 0 - 1     \* a NULL completed_at column
Day == 24

Users == {"u1", "u2"}

(***************************************************************************)
(* Character strings.                                                      *)
(***************************************************************************)
UpperChars == <<"A","B","C","D","E","F","G","H","I","J","K","L","M",
                "N","O","P","Q","R","S","T","U","V","W","X","Y","Z">>
LowerChars == <<"a","b","c","d","e","f","g","h","i","j","k","l","m",
                "n","o","p","q","r","s","t","u","v","w","x","y","z">>

\* str.lower() on one character
LowerChar(c) ==
    IF \E i \in 1..26 : UpperChars[i] = c
    THEN LowerChars[CHOOSE i \in 1..26 : UpperChars[i] = c]
    ELSE c

\* str.lower()
lower(s) == [i \in 1..Len(s) |-> LowerChar(s[i])]

\* Python's `sub in s`
Contains(s, sub) ==
    \E i \in 0..(Len(s) - Len(sub)) :
        \A j \in 1..Len(sub) : s[i + j] = sub[j]

\* index of the first occurrence of one of the characters cs at or after from, else Len(s)+1
FindAny(s, cs, from) ==
    IF \E i \in from..Len(s) : s[i] \in cs
    THEN CHOOSE i \in from..Len(s) : s[i] \in cs /\ \A k \in from..(i - 1) : s[k] \notin cs
    ELSE Len(s) + 1

\* url.split('?')[0]
BeforeQuery(s) == SubSeq(s, 1, FindAny(s, {"?"}, 1) - 1)

SchemeChars == {LowerChars[i] : i \in 1..26} \cup {UpperChars[i] : i \in 1..26}
                 \cup {"0","1","2","3","4","5","6","7","8","9","+","-","."}

\* urllib.parse.urlparse(url).netloc: the text between "//" (after an optional
\* scheme) and the next "/", "?" or "#"
netloc(url) ==
    LET colon == FindAny(url, {":"}, 1)
        hasScheme == /\ colon > 1 /\ colon <= Len(url)
                     /\ \A k \in 1..(colon - 1) : url[k] \in SchemeChars
                     /\ url[1] \notin {"0","1","2","3","4","5","6","7","8","9","+","-","."}
        rest == IF hasScheme THEN SubSeq(url, colon + 1, Len(url)) ELSE url
    IN  IF Len(rest) >= 2 /\ rest[1] = "/" /\ rest[2] = "/"
        THEN SubSeq(rest, 3, FindAny(rest, {"/", "?", "#"}, 3) - 1)
        ELSE <<>>

(***************************************************************************)
(* The literals the code searches for, and the URLs submitted in the model. *)
(***************************************************************************)
\* the character strings of the code and of the URLs of the model, by name
Str ==
    [youtube_com |-> <<"y","o","u","t","u","b","e",".","c","o","m">>,
     youtu_be |-> <<"y","o","u","t","u",".","b","e">>,
     facebook_com |-> <<"f","a","c","e","b","o","o","k",".","c","o","m">>,
     fb_com |-> <<"f","b",".","c","o","m">>,
     fb_watch |-> <<"f","b",".","w","a","t","c","h">>,
     instagram_com |-> <<"i","n","s","t","a","g","r","a","m",".","c","o","m">>,
     twitter_com |-> <<"t","w","i","t","t","e","r",".","c","o","m">>,
     x_com |-> <<"x",".","c","o","m">>,
     tiktok_com |-> <<"t","i","k","t","o","k",".","c","o","m">>,
     vimeo_com |-> <<"v","i","m","e","o",".","c","o","m">>,
     dailymotion_com |-> <<"d","a","i","l","y","m","o","t","i","o","n",".","c","o","m">>,
     dai_ly |-> <<"d","a","i",".","l","y">>,
     pinterest_com |-> <<"p","i","n","t","e","r","e","s","t",".","c","o","m">>,
     pin_it |-> <<"p","i","n",".","i","t">>,
     linkedin_com |-> <<"l","i","n","k","e","d","i","n",".","c","o","m">>,
     pinterest |-> <<"p","i","n","t","e","r","e","s","t">>,
     instagram |-> <<"i","n","s","t","a","g","r","a","m">>,
     slpsl |-> <<"/","p","/">>,
     slphotosl |-> <<"/","p","h","o","t","o","/">>,
     https |-> <<"h","t","t","p","s",":","/","/">>,
     http |-> <<"h","t","t","p",":","/","/">>,
     www |-> <<"w","w","w",".">>,
     not |-> <<"n","o","t">>,
     dot_org |-> <<".","o","r","g">>,
     path |-> <<"/","a">>,
     netflix_com |-> <<"n","e","t","f","l","i","x",".","c","o","m">>,
     example_com |-> <<"e","x","a","m","p","l","e",".","c","o","m">>,
     YOUTUBE_COM |-> <<"Y","o","u","T","u","b","e",".","C","O","M">>]
\* the URLs of the model; youtube_p is a YouTube address with '/p/' in its path
Url ==
    [youtube |-> <<"h","t","t","p","s",":","/","/","y","o","u","t","u",".","b","e","/","a">>,
     youtube_p |-> <<"h","t","t","p","s",":","/","/","y","o","u","t","u",".","b","e","/","p","/","a">>,
     facebook_upper |-> <<"h","t","t","p","s",":","/","/","F","B",".","C","O","M","/","v">>,
     tiktok |-> <<"h","t","t","p","s",":","/","/","t","i","k","t","o","k",".","c","o","m","/","v">>,
     pinterest |-> <<"h","t","t","p","s",":","/","/","p","i","n","t","e","r","e","s","t",".","c","o","m","/","a">>,
     other |-> <<"h","t","t","p","s",":","/","/","e","x","a","m","p","l","e",".","c","o","m","/","a">>]

Urls == {Url.youtube, Url.youtube_p, Url.facebook_upper, Url.tiktok, Url.pinterest, Url.other}
Qualities == {"1080p", "480p"}
Downloaders == {"YouTubeDownloader", "FacebookDownloader", "InstagramDownloader",
                "TwitterDownloader", "TikTokDownloader", "VimeoDownloader",
                "DailymotionDownloader", "PinterestDownloader", "LinkedInDownloader"}

(***************************************************************************)
(* web/downloaders/__init__.py                                             *)
(***************************************************************************)
ValueError == "ValueError"   \* the call raises ValueError

\* urlparse raises ValueError("Invalid IPv6 URL") when the netloc has one of
\* "[" and "]" without the other
urlparse_raises(url) ==
    LET n == netloc(url)
        has(c) == \E i \in 1..Len(n) : n[i] = c
    IN  (has("[") /\ ~has("]")) \/ (has("]") /\ ~has("["))

identify_platform(url) ==
    LET domain == lower(netloc(url)) IN
    IF Len(url) = 0 THEN NULL
    ELSE IF urlparse_raises(url) THEN ValueError
    ELSE IF Contains(domain, Str.youtube_com) \/ Contains(domain, Str.youtu_be) THEN "youtube"
    ELSE IF Contains(domain, Str.facebook_com) \/ Contains(domain, Str.fb_com)
            \/ Contains(domain, Str.fb_watch) THEN "facebook"
    ELSE IF Contains(domain, Str.instagram_com) THEN "instagram"
    ELSE IF Contains(domain, Str.twitter_com) \/ Contains(domain, Str.x_com) THEN "twitter"
    ELSE IF Contains(domain, Str.tiktok_com) THEN "tiktok"
    ELSE IF Contains(domain, Str.vimeo_com) THEN "vimeo"
    ELSE IF Contains(domain, Str.dailymotion_com) \/ Contains(domain, Str.dai_ly) THEN "dailymotion"
    ELSE IF Contains(domain, Str.pinterest_com) \/ Contains(domain, Str.pin_it) THEN "pinterest"
    ELSE IF Contains(domain, Str.linkedin_com) THEN "linkedin"
    ELSE NULL

\* the strategy class for a platform tag, NULL for None
get_downloader(platform) ==
    IF platform = "youtube" THEN (IF suspend THEN NULL ELSE "YouTubeDownloader")
    ELSE IF platform = "facebook" THEN "FacebookDownloader"
    ELSE IF platform = "instagram" THEN "InstagramDownloader"
    ELSE IF platform = "twitter" THEN "TwitterDownloader"
    ELSE IF platform = "tiktok" THEN "TikTokDownloader"
    ELSE IF platform = "vimeo" THEN "VimeoDownloader"
    ELSE IF platform = "dailymotion" THEN "DailymotionDownloader"
    ELSE IF platform = "pinterest" THEN "PinterestDownloader"
    ELSE IF platform = "linkedin" THEN "LinkedInDownloader"
    ELSE NULL

\* does the strategy's download() take the keyword extra_opts
AcceptsExtraOpts(downloader) == downloader \notin {"TikTokDownloader", "LinkedInDownloader"}

\* _clean_url of each strategy: TRUE when it returns, FALSE when it raises ValueError
\* (YouTube's raises only for an empty URL; Instagram has none)
clean_url_ok(downloader, url) ==
    LET u == BeforeQuery(url) IN
    IF downloader = "YouTubeDownloader" THEN Len(url) > 0
    ELSE IF downloader = "FacebookDownloader"
         THEN Contains(u, Str.facebook_com) \/ Contains(u, Str.fb_com) \/ Contains(u, Str.fb_watch)
    ELSE IF downloader = "TwitterDownloader"
         THEN Contains(u, Str.twitter_com) \/ Contains(u, Str.x_com)
    ELSE IF downloader = "TikTokDownloader" THEN Contains(u, Str.tiktok_com)
    ELSE IF downloader = "PinterestDownloader"
         THEN Contains(u, Str.pinterest_com) \/ Contains(u, Str.pin_it)
    ELSE IF downloader = "LinkedInDownloader" THEN Contains(u, Str.linkedin_com)
    ELSE TRUE

\* identify_platform and _clean_url over the URLs of the model, evaluated once
PlatformOf == [url \in Urls |-> identify_platform(url)]
CleanUrlOk == [downloader \in Downloaders |-> [url \in Urls |-> clean_url_ok(downloader, url)]]

\* How one call downloader.download(...) by a caller can end, for a row's platform
\* and url: "path" (a path to an existing file), "none" (None returned) or
\* "raise" (an exception reaches the caller).  A None downloader raises
\* AttributeError; a strategy without the extra_opts keyword raises TypeError
\* when called with it; a rejected URL is caught by the strategy, which returns
\* None (YouTube's _clean_url runs outside its try and raises); otherwise the
\* extraction decides.
StrategyOutcomes(platform, url, withExtraOpts) ==
    LET downloader == get_downloader(platform) IN
    IF downloader = NULL THEN {"raise"}
    ELSE IF withExtraOpts /\ ~AcceptsExtraOpts(downloader) THEN {"raise"}
    ELSE IF ~CleanUrlOk[downloader][url]
         THEN (IF downloader = "YouTubeDownloader" THEN {"raise"} ELSE {"none"})
    ELSE {"path", "none"}

\* str(e) of the exception that reaches the caller
RaisedMessage(platform) ==
    IF get_downloader(platform) = NULL
    THEN "'NoneType' object has no attribute 'download'"
    ELSE IF ~AcceptsExtraOpts(get_downloader(platform))
    THEN "download() got an unexpected keyword argument 'extra_opts'"
    ELSE "URL cannot be empty"

(***************************************************************************)
(* web/models/__init__.py and web/monetization/__init__.py                 *)
(***************************************************************************)
Unlimited == 0 - 1   \* the literal 'Unlimited' of a plan limit

\* MonetizationManager.subscription_plans; a key a plan lacks reads NULL, prices in cents
subscription_plans ==
    [free  |-> [daily_downloads |-> 5, daily_image_downloads |-> 10,
                max_video_quality |-> "720p", id |-> NULL, price |-> 0],
     basic |-> [daily_downloads |-> 30, daily_image_downloads |-> Unlimited,
                max_video_quality |-> NULL, id |-> NULL, price |-> 499],
     pro   |-> [daily_downloads |-> Unlimited, daily_image_downloads |-> Unlimited,
                max_video_quality |-> NULL, id |-> NULL, price |-> 999]]

PlanIds == {"free", "basic", "pro"}

\* Subscription.is_active
is_active(sub) ==
    /\ sub.status = "active"
    /\ ~(sub.expires_at # NoExpiry /\ sub.expires_at < now)

\* User.subscription: index of the first row of the user with status 'active', 0 for None
subscription(user) ==
    LET mine == {i \in 1..Len(subs) : subs[i].user_id = user /\ subs[i].status = "active"}
    IN  IF mine = {} THEN 0 ELSE CHOOSE i \in mine : \A k \in mine : i <= k

\* a lookup without the legacy table
legacy_map_identity(plan_id) == plan_id

legacy_map(plan_id) ==
    IF plan_id = "premium" THEN "basic"
    ELSE IF plan_id = "premium_plus" THEN "pro"
    ELSE plan_id

\* the plan id can_download works with (lines 151-165)
effective_plan_id(user) ==
    LET s == subscription(user) IN
    IF s # 0 /\ is_active(subs[s])
    THEN (IF legacy_map(subs[s].plan_id) \in PlanIds THEN legacy_map(subs[s].plan_id) ELSE "free")
    ELSE "free"

\* datetime.now().replace(hour=0, ...): local midnight as a naive value
today == LET local == now + tz IN local - (local % Day)

\* 3 * 1024 * 1024 * 1024 bytes, in MiB
free_cap_bytes == 3 * 1024

RECURSIVE SumSize(_)
SumSize(ids) ==
    IF ids = {} THEN 0
    ELSE LET i == CHOOSE k \in ids : TRUE
         IN  (IF downloads[i].size = NoSize THEN 0 ELSE downloads[i].size) + SumSize(ids \ {i})

\* rows the count query selects (lines 193-197)
recent_rows(user, content_type) ==
    {i \in 1..Len(downloads) :
        /\ downloads[i].status # "deleted"    \* a row that was deleted is not in the table
        /\ downloads[i].user_id = user
        /\ downloads[i].created_at >= today
        /\ downloads[i].content_type = content_type}

\* a count that looks at completed rows only
recent_count_completed_only(user, content_type) ==
    Cardinality({i \in recent_rows(user, content_type) : downloads[i].status = "completed"})

recent_count(user, content_type) == Cardinality(recent_rows(user, content_type))

\* rows the byte sum selects (lines 205-209)
data_rows(user) ==
    {i \in 1..Len(downloads) :
        /\ downloads[i].user_id = user
        /\ downloads[i].created_at >= today
        /\ downloads[i].status = "completed"}

data_used(user) == SumSize(data_rows(user))

\* a parse that sends 'Unlimited' through int() and lands on the default
limit_val_unlimited_as_default(user, content_type) ==
    LET plan == subscription_plans[effective_plan_id(user)]
        v == IF content_type = "image" THEN plan.daily_image_downloads ELSE plan.daily_downloads
    IN  IF v = Unlimited THEN (IF content_type = "video" THEN 5 ELSE 10) ELSE v

\* the daily limit as the code parses it: Unlimited stays the sentinel
limit_val(user, content_type) ==
    LET plan == subscription_plans[effective_plan_id(user)] IN
    IF content_type = "image" THEN plan.daily_image_downloads ELSE plan.daily_downloads

\* a check that applies the data cap to every plan
can_download_cap_all_plans(user, content_type) ==
    IF user \notin Users THEN FALSE
    ELSE IF limit_val(user, content_type) # Unlimited
            /\ recent_count(user, content_type) >= limit_val(user, content_type) THEN FALSE
    ELSE IF data_used(user) >= free_cap_bytes THEN FALSE
    ELSE TRUE

\* a check without the guard on the principal
can_download_no_auth_guard(user, content_type) ==
    IF limit_val(user, content_type) # Unlimited
       /\ recent_count(user, content_type) >= limit_val(user, content_type) THEN FALSE
    ELSE IF effective_plan_id(user) = "free" /\ data_used(user) >= free_cap_bytes THEN FALSE
    ELSE TRUE

\* MonetizationManager.can_download
can_download(user, content_type) ==
    IF user \notin Users THEN FALSE
    ELSE IF limit_val(user, content_type) # Unlimited
            /\ recent_count(user, content_type) >= limit_val(user, content_type) THEN FALSE
    ELSE IF effective_plan_id(user) = "free" /\ data_used(user) >= free_cap_bytes THEN FALSE
    ELSE TRUE

(***************************************************************************)
(* The Download row and the /download route (src/app.py 232-404).          *)
(***************************************************************************)
\* line 252: the content type is read off the URL text
content_type_of(url) ==
    LET u == lower(url) IN
    IF Contains(u, Str.pinterest) \/ Contains(u, Str.instagram)
       \/ Contains(u, Str.slpsl) \/ Contains(u, Str.slphotosl)
    THEN "image" ELSE "video"

ContentTypeOf == [url \in Urls |-> content_type_of(url)]

HighQualities == {"1080p", "2160p", "4K", "Best"}

\* lines 262-276: the plan the route looks up (no legacy mapping here; NULL when
\* plans.get finds nothing) and the quality it persists
route_plan_id(user) ==
    LET s == subscription(user) IN
    IF s # 0 /\ is_active(subs[s])
    THEN (IF subs[s].plan_id \in PlanIds THEN subs[s].plan_id ELSE NULL)
    ELSE "free"

resolve_quality(user, content_type, quality) ==
    LET pid == route_plan_id(user) IN
    IF pid # NULL /\ subscription_plans[pid].id = "free" /\ content_type = "video"
    THEN (IF quality \in HighQualities /\ subscription_plans[pid].max_video_quality = "720p"
          THEN "720p" ELSE quality)
    ELSE quality

\* lines 279-288
NewDownload(user, url, platform, quality, content_type) ==
    [user_id |-> user, url |-> url, platform |-> platform, quality |-> quality,
     status |-> "downloading", progress |-> 0, file_path |-> NULL,
     error_message |-> NULL, created_at |-> now, completed_at |-> NoStamp,
     size |-> NoSize, content_type |-> content_type,
     video_quality |-> IF content_type = "video" THEN quality ELSE NULL]

NoSubmit == [user |-> NULL, url |-> <<>>, quality |-> NULL, content_type |-> NULL,
             free |-> FALSE, outcome |-> "none", id |-> 0]

NewRows == {i \in 1..Len(downloads) : bg[i].pc # "none"}

\* what a /download request decides: "unsupported", "error" (the exception of
\* identify_platform ends the request), "suspended", "quota" or "admitted"
Admission(user, url) ==
    LET platform == PlatformOf[url] IN
    IF platform = NULL THEN "unsupported"
    ELSE IF platform = ValueError THEN "error"
    ELSE IF platform = "youtube" /\ suspend THEN "suspended"
    ELSE IF ~can_download(user, ContentTypeOf[url]) THEN "quota"
    ELSE "admitted"

\* POST /download by a logged-in user
download(user, url, quality) ==
    /\ Cardinality(NewRows) < MaxNew
    /\ LET platform == PlatformOf[url]
           ct == ContentTypeOf[url]
           outcome == Admission(user, url)
           q == resolve_quality(user, ct, quality)
       IN  /\ lastSubmit' = [user |-> user, url |-> url, quality |-> quality,
                             content_type |-> ct,
                             free |-> (effective_plan_id(user) = "free"),
                             outcome |-> outcome,
                             id |-> IF outcome = "admitted" THEN Len(downloads) + 1 ELSE 0]
           /\ IF outcome = "admitted"
              THEN /\ downloads' = Append(downloads, NewDownload(user, url, platform, q, ct))
                   /\ bg' = Append(bg, [pc |-> "run", retry_count |-> 0])
                   /\ cancelReq' = Append(cancelReq, "idle")
                   /\ retryReq' = Append(retryReq, "idle")
              ELSE UNCHANGED <<downloads, bg, cancelReq, retryReq>>
    /\ UNCHANGED <<subs, reqs, now, tz, suspend, decision, probe, ex>>

(***************************************************************************)
(* The background thread run_download_task (src/app.py 294-390) and the    *)
(* progress hook of download_with_ytdlp (ytdlp_helper.py 38-60).           *)
(***************************************************************************)
max_retries == 3

\* progress events of the extractor: total_bytes 0 stands for a missing total
HookEvents ==
    {d \in [status : {"downloading", "finished", "error"},
            total_bytes : {0, 4}, downloaded_bytes : {0, 2, 4, 8}] :
        d.status # "downloading" => (d.total_bytes = 0 /\ d.downloaded_bytes = 0)}

NoCall == 0 - 1

Min2(a, b) == IF a < b THEN a ELSE b
Max2(a, b) == IF a > b THEN a ELSE b

\* a hook that hands the computed percentage on as it is
hook_unclamped(d) ==
    IF d.status = "downloading"
    THEN (IF d.total_bytes # 0 /\ d.downloaded_bytes # 0
          THEN (d.downloaded_bytes * 100) \div d.total_bytes
          ELSE 1)
    ELSE IF d.status = "finished" THEN 100
    ELSE NoCall

\* hook(d): the percentage handed to progress_callback, NoCall when it is not called
hook(d) ==
    IF d.status = "downloading"
    THEN (IF d.total_bytes # 0 /\ d.downloaded_bytes # 0
          THEN Max2(0, Min2(100, (d.downloaded_bytes * 100) \div d.total_bytes))
          ELSE 1)
    ELSE IF d.status = "finished" THEN 100
    ELSE NoCall

\* progress_cb(pct): lines 329-340
progress_cb(row, pct) == [row EXCEPT !.progress = pct, !.status = "downloading"]

\* sizes os.path.getsize can report for the downloaded file, in MiB
FileSizes == {100, 3584}

\* lines 374-382 and 900-909: the write of a successful attempt
WriteCompleted(row, sz) ==
    [row EXCEPT !.status = "completed", !.file_path = "file", !.completed_at = now,
                !.progress = 100, !.size = sz]

\* lines 383-385
WriteFailedAfterAttempts(row) ==
    [row EXCEPT !.status = "failed",
                !.error_message = "Download failed after multiple attempts"]

\* lines 387-390
WriteFailedException(row, msg) ==
    [row EXCEPT !.status = "failed", !.error_message = msg]

\* one progress event of the extraction running in the thread of row id
ProgressEvent(id, d) ==
    /\ id \in 1..Len(downloads)
    /\ bg[id].pc = "run"
    /\ "path" \in StrategyOutcomes(downloads[id].platform, downloads[id].url, TRUE)
    /\ hook(d) # NoCall
    /\ downloads' = [downloads EXCEPT ![id] = progress_cb(@, hook(d))]
    /\ UNCHANGED <<subs, bg, cancelReq, retryReq, reqs, now, tz, suspend, lastSubmit, decision, probe, ex>>

\* a thread that ends after its last failed attempt without writing anything
AttemptEnd_no_terminal_write(id, outcome, sz) ==
    /\ id \in 1..Len(downloads)
    /\ bg[id].pc = "run"
    /\ outcome \in StrategyOutcomes(downloads[id].platform, downloads[id].url, TRUE)
    /\ LET rc == bg[id].retry_count + 1 IN
       IF outcome = "path"
       THEN /\ downloads' = [downloads EXCEPT ![id] = WriteCompleted(@, sz)]
            /\ bg' = [bg EXCEPT ![id].pc = "done"]
       ELSE IF rc < max_retries
       THEN /\ bg' = [bg EXCEPT ![id].retry_count = rc]
            /\ UNCHANGED downloads
       ELSE /\ bg' = [bg EXCEPT ![id] = [pc |-> "done", retry_count |-> rc]]
            /\ UNCHANGED downloads
    /\ UNCHANGED <<subs, cancelReq, retryReq, reqs, now, tz, suspend, lastSubmit, decision, probe, ex>>

\* a loop that tests retry_count after the call instead of before it
AttemptEnd_loop_off_by_one(id, outcome, sz) ==
    /\ id \in 1..Len(downloads)
    /\ bg[id].pc = "run"
    /\ outcome \in StrategyOutcomes(downloads[id].platform, downloads[id].url, TRUE)
    /\ LET rc == bg[id].retry_count + 1 IN
       IF outcome = "path"
       THEN /\ downloads' = [downloads EXCEPT ![id] = WriteCompleted(@, sz)]
            /\ bg' = [bg EXCEPT ![id].pc = "done"]
       ELSE IF rc <= max_retries
       THEN /\ bg' = [bg EXCEPT ![id].retry_count = rc]
            /\ UNCHANGED downloads
       ELSE /\ bg' = [bg EXCEPT ![id] = [pc |-> "done", retry_count |-> rc]]
            /\ downloads' = [downloads EXCEPT ![id] =
                   IF outcome = "raise"
                   THEN WriteFailedException(@, RaisedMessage(downloads[id].platform))
                   ELSE WriteFailedAfterAttempts(@)]
    /\ UNCHANGED <<subs, cancelReq, retryReq, reqs, now, tz, suspend, lastSubmit, decision, probe, ex>>

\* one pass of the while loop (lines 351-372) and, when the loop is left, the
\* terminal write (lines 374-390)
AttemptEnd(id, outcome, sz) ==
    /\ id \in 1..Len(downloads)
    /\ bg[id].pc = "run"
    /\ outcome \in StrategyOutcomes(downloads[id].platform, downloads[id].url, TRUE)
    /\ LET rc == bg[id].retry_count + 1 IN
       IF outcome = "path"
       THEN /\ downloads' = [downloads EXCEPT ![id] = WriteCompleted(@, sz)]
            /\ bg' = [bg EXCEPT ![id].pc = "done"]
       ELSE IF rc < max_retries
       THEN /\ bg' = [bg EXCEPT ![id].retry_count = rc]
            /\ UNCHANGED downloads
       ELSE /\ bg' = [bg EXCEPT ![id] = [pc |-> "done", retry_count |-> rc]]
            /\ downloads' = [downloads EXCEPT ![id] =
                   IF outcome = "raise"
                   THEN WriteFailedException(@, RaisedMessage(downloads[id].platform))
                   ELSE WriteFailedAfterAttempts(@)]
    /\ UNCHANGED <<subs, cancelReq, retryReq, reqs, now, tz, suspend, lastSubmit, decision, probe, ex>>

(***************************************************************************)
(* /cancel_download (840-861) and /retry_download (863-924).  A request is *)
(* split where it reads the row and where it commits, because the          *)
(* background thread and other requests run in between.                    *)
(***************************************************************************)
\* lines 844-854: the row is read and the guards pass
CancelCheck(user, id) ==
    /\ id \in 1..Len(downloads)
    /\ cancelReq[id] = "idle"
    /\ downloads[id].user_id = user
    /\ downloads[id].status = "downloading"
    /\ cancelReq' = [cancelReq EXCEPT ![id] = "checked"]
    /\ UNCHANGED <<downloads, subs, bg, retryReq, reqs, now, tz, suspend, lastSubmit, decision, probe, ex>>

\* lines 857-858
CancelWrite(id) ==
    /\ id \in 1..Len(downloads)
    /\ cancelReq[id] = "checked"
    /\ downloads' = [downloads EXCEPT ![id].status = "cancelled"]
    /\ cancelReq' = [cancelReq EXCEPT ![id] = "idle"]
    /\ UNCHANGED <<subs, bg, retryReq, reqs, now, tz, suspend, lastSubmit, decision, probe, ex>>

\* lines 867-883: guards, then status 'downloading' and error_message None are committed
RetryBegin(user, id) ==
    /\ id \in 1..Len(downloads)
    /\ retryReq[id] = "idle"
    /\ downloads[id].user_id = user
    /\ downloads[id].status = "failed"
    /\ downloads' = [downloads EXCEPT ![id].status = "downloading",
                                      ![id].error_message = NULL]
    /\ retryReq' = [retryReq EXCEPT ![id] = "running"]
    /\ UNCHANGED <<subs, bg, cancelReq, reqs, now, tz, suspend, lastSubmit, decision, probe, ex>>

\* lines 885-922: the strategy is called without callbacks and without extra_opts
RetryFinish(id, outcome, sz) ==
    /\ id \in 1..Len(downloads)
    /\ retryReq[id] = "running"
    /\ outcome \in StrategyOutcomes(downloads[id].platform, downloads[id].url, FALSE)
    /\ downloads' = [downloads EXCEPT ![id] =
           IF outcome = "path" THEN WriteCompleted(@, sz)
           ELSE IF outcome = "none" THEN [@ EXCEPT !.status = "failed"]
           ELSE WriteFailedException(@, RaisedMessage(downloads[id].platform))]
    /\ retryReq' = [retryReq EXCEPT ![id] = "idle"]
    /\ UNCHANGED <<subs, bg, cancelReq, reqs, now, tz, suspend, lastSubmit, decision, probe, ex>>

(***************************************************************************)
(* One call downloader.download(...) followed through the strategy and     *)
(* download_with_ytdlp: the option dicts, the tiers of the strategy and    *)
(* the extraction attempts of the helper.  An option dict is a function on *)
(* OptKeys with Absent for a key it does not hold; values are written as   *)
(* strings, "None" for Python's None.                                      *)
(***************************************************************************)
Absent == "<absent>"

OptKeys ==
    {"retries", "extractor_retries", "socket_timeout", "max_sleep_interval",
     "nocheckcertificate", "cookiesfrombrowser", "cookiefile",
     "force_generic_extractor", "extract_flat", "ignoreerrors", "verbose",
     "youtube_include_dash_manifest", "writethumbnail"}

EmptyOpts == [k \in OptKeys |-> Absent]

\* a dict literal, from its (key, value) pairs
Dict(pairs) ==
    [k \in OptKeys |-> IF \E p \in pairs : p[1] = k
                       THEN (CHOOSE p \in pairs : p[1] = k)[2]
                       ELSE Absent]

\* dict.update, dict.pop(key, None), dict.setdefault
update(d, e) == [k \in OptKeys |-> IF e[k] # Absent THEN e[k] ELSE d[k]]
pop(d, key) == [d EXCEPT ![key] = Absent]
setdefault(d, key, value) == IF d[key] = Absent THEN [d EXCEPT ![key] = value] ELSE d

\* the execution environment: one environment variable that is set (or none),
\* a container marker file (or none) and the home directory
EnvVarNames == {"RENDER", "RAILWAY", "HEROKU", "VERCEL", "FLY_IO", "PRODUCTION"}
MarkerFiles == {"/.dockerenv", "/run/.containerenv"}
NoEnv == [var |-> NULL, value |-> "", marker |-> NULL, home |-> "/root"]
Environments ==
    {NoEnv}
    \cup {[NoEnv EXCEPT !.var = v, !.value = "1"] : v \in EnvVarNames}
    \cup {[NoEnv EXCEPT !.var = "RENDER", !.value = "true"]}
    \cup {[NoEnv EXCEPT !.marker = m] : m \in MarkerFiles}
    \cup {[NoEnv EXCEPT !.home = "/opt/render"]}

\* ytdlp_helper.py line 160
prod_env(env) == (env.var \in EnvVarNames /\ env.value # "") \/ env.marker = "/.dockerenv"

\* youtube_downloader.py line 73
is_production(env) == (env.var = "RENDER" /\ env.value = "true") \/ env.home = "/opt/render"

\* instagram_downloader.py lines 26-34
is_production_environment(env) ==
    (env.var \in {"RENDER", "PRODUCTION"} /\ env.value # "") \/ env.marker \in MarkerFiles

\* youtube_opts of YouTubeDownloader.download, lines 47-144
youtube_opts(env, root_cookies, extra_opts) ==
    LET base == Dict({<<"retries", "20">>, <<"extractor_retries", "15">>,
                      <<"socket_timeout", "60">>, <<"max_sleep_interval", "10">>,
                      <<"nocheckcertificate", "True">>})
        production == update(base, Dict({<<"cookiesfrombrowser", "None">>,
                                         <<"force_generic_extractor", "False">>,
                                         <<"extract_flat", "True">>,
                                         <<"ignoreerrors", "True">>,
                                         <<"youtube_include_dash_manifest", "False">>}))
        withCookies == IF is_production(env)
                       THEN (IF root_cookies
                             THEN [production EXCEPT !["cookiefile"] = "cookies.txt"]
                             ELSE production)
                       ELSE (IF root_cookies
                             THEN [base EXCEPT !["cookiefile"] = "cookies.txt"]
                             ELSE [base EXCEPT !["cookiesfrombrowser"] = "chrome"])
    IN  update(withCookies, extra_opts)

\* fallback_opts of the second attempt, lines 176-192
youtube_fallback_opts(opts) ==
    update(pop(opts, "cookiesfrombrowser"),
           Dict({<<"verbose", "True">>, <<"force_generic_extractor", "False">>,
                 <<"max_sleep_interval", "5">>, <<"ignoreerrors", "True">>}))

\* instagram_opts of InstagramDownloader.download, lines 53-114
instagram_opts(env, extra_opts) ==
    LET base == Dict({<<"retries", "15">>, <<"extractor_retries", "10">>,
                      <<"socket_timeout", "60">>, <<"max_sleep_interval", "10">>,
                      <<"nocheckcertificate", "True">>, <<"ignoreerrors", "True">>,
                      <<"force_generic_extractor", "False">>, <<"extract_flat", "True">>,
                      <<"verbose", "True">>})
        merged == update(base, extra_opts)
    IN  IF is_production_environment(env)
        THEN [merged EXCEPT !["cookiesfrombrowser"] = "None"]
        ELSE merged

\* lines 139-142
instagram_second_opts(opts) ==
    [opts EXCEPT !["force_generic_extractor"] = "True", !["extract_flat"] = "False"]

\* extra_opts of PinterestDownloader.download: lines 46-50 and 73-78
pinterest_opts(tier) ==
    IF tier = 1 THEN Dict({<<"writethumbnail", "False">>})
    ELSE Dict({<<"writethumbnail", "False">>, <<"extract_flat", "False">>})

StratPlatforms == {"youtube", "instagram", "pinterest", "facebook"}

\* the extra_opts a strategy hands to download_with_ytdlp in a tier
strategy_opts(platform, tier, env, root_cookies, caller) ==
    CASE platform = "youtube" ->
             IF tier = 1 THEN youtube_opts(env, root_cookies, caller)
             ELSE youtube_fallback_opts(youtube_opts(env, root_cookies, caller))
      [] platform = "instagram" ->
             IF tier = 1 THEN instagram_opts(env, caller)
             ELSE instagram_second_opts(instagram_opts(env, caller))
      [] platform = "pinterest" -> pinterest_opts(tier)
      [] platform = "facebook" -> caller

\* ytdlp_opts of download_with_ytdlp, lines 88-168
helper_opts(env, cfg_browser, cwd_cookies, extra_opts) ==
    LET base == Dict({<<"retries", "15">>, <<"extractor_retries", "10">>,
                      <<"socket_timeout", "30">>})
        withFile == IF cwd_cookies THEN [base EXCEPT !["cookiefile"] = "cookies.txt"] ELSE base
        withBrowser == IF cfg_browser # Absent
                       THEN [withFile EXCEPT !["cookiesfrombrowser"] = cfg_browser]
                       ELSE withFile
        withEnv == IF prod_env(env)
                   THEN setdefault(setdefault(pop(withBrowser, "cookiesfrombrowser"),
                                              "youtube_include_dash_manifest", "False"),
                                   "nocheckcertificate", "True")
                   ELSE withBrowser
    IN  update(withEnv, extra_opts)

\* fallback_opts of the helper's second attempt, lines 223-225
helper_fallback_opts(opts) == pop(pop(opts, "cookiesfrombrowser"), "cookiefile")

min_size == 1024

NoFile == [exists |-> FALSE, size |-> 0]
BigFile == [exists |-> TRUE, size |-> 2 * min_size]
SmallFile == [exists |-> TRUE, size |-> min_size \div 2]

\* how one ydl.extract_info(url, download=True) can end: a file listed in
\* requested_downloads exists (big or small); no such file but a candidate of
\* prepare_filename exists (big or small); nothing was written; the extractor
\* raised an error whose text names cookies or a login; it raised another
\* error; the hook raised KeyboardInterrupt
ExtractOutcomes ==
    {"requested_big", "requested_small", "candidate_big", "candidate_small",
     "no_file", "cookie_error", "other_error", "cancelled"}

\* lines 174-265: what download_with_ytdlp does when its extraction attempt
\* (1: lines 174-202, 2: lines 230-254) ends
helper_end(attempt, outcome) ==
    CASE outcome = "requested_big" -> [kind |-> "return", value |-> "path", file |-> BigFile]
      [] outcome = "requested_small" -> [kind |-> "return", value |-> "path", file |-> SmallFile]
      [] outcome = "candidate_big" -> [kind |-> "return", value |-> "path", file |-> BigFile]
      [] outcome \in {"candidate_small", "no_file"} ->
             [kind |-> "return", value |-> "None", file |-> NoFile]
      [] outcome = "cancelled" ->
             IF attempt = 1
             THEN [kind |-> "return", value |-> "None", file |-> NoFile]
             ELSE [kind |-> "raise", value |-> "KeyboardInterrupt", file |-> NoFile]
      [] outcome = "cookie_error" ->
             IF attempt = 1
             THEN [kind |-> "retry", value |-> "None", file |-> NoFile]
             ELSE [kind |-> "return", value |-> "None", file |-> NoFile]
      [] outcome = "other_error" -> [kind |-> "return", value |-> "None", file |-> NoFile]

\* what a strategy does when the helper call of a tier has ended with h: a
\* path, None, an Exception ("OSError") or KeyboardInterrupt, which no
\* `except Exception` of a strategy catches
after_tier(platform, tier, h) ==
    IF h = "KeyboardInterrupt" THEN "raise"
    ELSE IF h = "path" THEN "return_path"
    ELSE CASE platform = "youtube" -> IF tier = 1 THEN "next_tier" ELSE "return_none"
           [] platform = "instagram" ->
                  IF tier = 1 /\ h = "OSError" THEN "next_tier" ELSE "return_none"
           [] platform = "pinterest" -> IF tier = 1 THEN "next_tier" ELSE "return_none"
           [] platform = "facebook" -> "return_none"

NoEx ==
    [platform |-> NULL, env |-> NoEnv, cfg_browser |-> Absent, cwd_cookies |-> FALSE,
     root_cookies |-> FALSE, makedirs_ok |-> TRUE, caller |-> EmptyOpts, cancel |-> FALSE,
     pc |-> "none", tier |-> 0, attempt |-> 0, strat_opts |-> EmptyOpts, opts |-> EmptyOpts,
     last |-> NULL, hret |-> NULL, file |-> NoFile, tier1 |-> NULL, result |-> NULL]

RECURSIVE enter_tier(_, _)
RECURSIVE strategy_continue(_)

\* the strategy calls download_with_ytdlp for a tier: os.makedirs (line 35)
\* raises, or the options are built and the first extraction starts
enter_tier(e, tier) ==
    LET so == strategy_opts(e.platform, tier, e.env, e.root_cookies, e.caller) IN
    IF e.makedirs_ok
    THEN [e EXCEPT !.pc = "extract", !.tier = tier, !.attempt = 1, !.strat_opts = so,
                   !.opts = helper_opts(e.env, e.cfg_browser, e.cwd_cookies, so)]
    ELSE strategy_continue([e EXCEPT !.tier = tier, !.strat_opts = so, !.hret = "OSError",
                                     !.tier1 = IF tier = 1 THEN "OSError" ELSE @])

\* the helper call of tier e.tier has ended with e.hret
strategy_continue(e) ==
    LET a == after_tier(e.platform, e.tier, e.hret) IN
    IF a = "next_tier" THEN enter_tier(e, e.tier + 1)
    ELSE [e EXCEPT !.pc = "done",
                   !.result = CASE a = "raise" -> "KeyboardInterrupt"
                                [] a = "return_path" -> "path"
                                [] a = "return_none" -> "None"]

\* downloader.download(...) runs up to its first extraction
StrategyBegin ==
    /\ ex.pc = "call"
    /\ ex' = IF ex.platform \in {"pinterest", "facebook"} /\ ~ex.makedirs_ok
             THEN [ex EXCEPT !.pc = "done", !.result = "None"]
             ELSE enter_tier(ex, 1)
    /\ UNCHANGED <<downloads, subs, bg, cancelReq, retryReq, reqs, now, tz, suspend, lastSubmit,
                   decision, probe>>

\* one ydl.extract_info ends, and the helper and the strategy run on to the
\* next extraction or to the return of the strategy
ExtractEnds(outcome) ==
    /\ ex.pc = "extract"
    /\ outcome = "cancelled" => ex.cancel
    /\ LET h == helper_end(ex.attempt, outcome) IN
       ex' = IF h.kind = "retry"
             THEN [ex EXCEPT !.attempt = 2, !.last = outcome,
                             !.opts = helper_fallback_opts(ex.opts)]
             ELSE strategy_continue(
                      [ex EXCEPT !.last = outcome, !.hret = h.value, !.file = h.file,
                                 !.tier1 = IF ex.tier = 1 THEN h.value ELSE @])
    /\ UNCHANGED <<downloads, subs, bg, cancelReq, retryReq, reqs, now, tz, suspend, lastSubmit,
                   decision, probe>>

(***************************************************************************)
(* The job life cycle: initial states and next-state relation.             *)
(***************************************************************************)
NowStart == Day + 12   \* noon of the second day

HistoryRow(user, url, status, sz, created) ==
    [user_id |-> user, url |-> url, platform |-> identify_platform(url),
     quality |-> "480p",
     status |-> status, progress |-> IF status = "completed" THEN 100 ELSE 0,
     file_path |-> IF status = "completed" THEN "file" ELSE NULL,
     error_message |-> IF status = "failed"
                       THEN "Download failed after multiple attempts" ELSE NULL,
     created_at |-> created,
     completed_at |-> IF status = "completed" THEN created ELSE NoStamp,
     size |-> IF status = "completed" THEN sz ELSE NoSize,
     content_type |-> content_type_of(url),
     video_quality |-> IF content_type_of(url) = "video" THEN "480p" ELSE NULL]

\* a user who has used the free video quota of the day: four completed jobs and a failed one
HistoryAtQuota ==
    [i \in 1..5 |-> HistoryRow("u1", Url.youtube,
                               IF i = 5 THEN "failed" ELSE "completed", 100, NowStart - 1)]

NoThread == [pc |-> "none", retry_count |-> 0]
NoReq == [pc |-> "idle", user |-> NULL, url |-> <<>>, quality |-> NULL, id |-> 0]
NoReqs == [r \in 1..MaxInflight |-> NoReq]
NoDecision == [user |-> NULL, content_type |-> NULL, allowed |-> FALSE]
NoProbe == [fn |-> NULL, arg |-> <<>>, result |-> NULL]

ProSub == [user_id |-> "u2", plan_id |-> "pro", status |-> "active", expires_at |-> NoExpiry]

Init ==
    /\ downloads \in {<<>>, HistoryAtQuota}
    /\ subs = <<ProSub>>
    /\ bg = [i \in 1..Len(downloads) |-> NoThread]
    /\ cancelReq = [i \in 1..Len(downloads) |-> "idle"]
    /\ retryReq = [i \in 1..Len(downloads) |-> "idle"]
    /\ now = NowStart
    /\ tz = 0
    /\ suspend \in BOOLEAN
    /\ lastSubmit = NoSubmit
    /\ decision = NoDecision
    /\ probe = NoProbe
    /\ ex = NoEx
    /\ reqs = NoReqs

Next ==
    \/ \E u \in Users, url \in Urls, q \in Qualities : download(u, url, q)
    \/ \E id \in 1..Len(downloads), d \in HookEvents : ProgressEvent(id, d)
    \/ \E id \in 1..Len(downloads), o \in {"path", "none", "raise"}, sz \in FileSizes :
           AttemptEnd(id, o, sz)
    \/ \E u \in Users, id \in 1..Len(downloads) : CancelCheck(u, id)
    \/ \E id \in 1..Len(downloads) : CancelWrite(id)
    \/ \E u \in Users, id \in 1..Len(downloads) : RetryBegin(u, id)
    \/ \E id \in 1..Len(downloads), o \in {"path", "none", "raise"}, sz \in FileSizes :
           RetryFinish(id, o, sz)

Spec == Init /\ [][Next]_vars

(***************************************************************************)
(* The entitlement check on its own: can_download is evaluated against a   *)
(* history of rows, a subscription and a clock drawn from bounded sets.    *)
(***************************************************************************)
EntStatuses == {"completed", "failed", "downloading", "cancelled"}
EntSizes == {100, 1024, 3584}        \* MiB
TzOffsets == {0 - 5, 0, 5}
EntExtras == {"none", "other_user", "yesterday", "other_type", "all"}

\* a row of a drawn history; a size stays on a row that completed and was then
\* overwritten by a cancel request
EntRow(user, content_type, status, sz, created) ==
    [user_id |-> user,
     url |-> IF content_type = "video" THEN Url.youtube ELSE Url.pinterest,
     platform |-> IF content_type = "video" THEN "youtube" ELSE "pinterest",
     quality |-> "480p", status |-> status,
     progress |-> IF status \in {"completed", "cancelled"} THEN 100 ELSE 0,
     file_path |-> IF status \in {"completed", "cancelled"} THEN "file" ELSE NULL,
     error_message |-> IF status = "failed"
                       THEN "Download failed after multiple attempts" ELSE NULL,
     created_at |-> created,
     completed_at |-> IF status \in {"completed", "cancelled"} THEN created ELSE NoStamp,
     size |-> IF status \in {"completed", "cancelled"} THEN sz ELSE NoSize,
     content_type |-> content_type,
     video_quality |-> IF content_type = "video" THEN "480p" ELSE NULL]

Repeat(n, row) == [i \in 1..n |-> row]

OtherType(content_type) == IF content_type = "video" THEN "image" ELSE "video"

\* n rows of u1 of one content type created at `created`, and around them rows the
\* queries must leave out: rows of u2, rows of the day before, rows of the other type
EntHistory(content_type, n, status, sz, created, extras) ==
    Repeat(n, EntRow("u1", content_type, status, sz, created))
    \o (IF extras \in {"other_user", "all"}
        THEN Repeat(5, EntRow("u2", content_type, "completed", 1024, created)) ELSE <<>>)
    \o (IF extras \in {"yesterday", "all"}
        THEN Repeat(5, EntRow("u1", content_type, "completed", 1024, 0)) ELSE <<>>)
    \o (IF extras \in {"other_type", "all"}
        THEN Repeat(5, EntRow("u1", OtherType(content_type), "failed", 100, created)) ELSE <<>>)

ActiveSub(user, plan_id, expires) ==
    [user_id |-> user, plan_id |-> plan_id, status |-> "active", expires_at |-> expires]

\* plan ids stored in Subscription rows: the current ones, the legacy ones and
\* one that no table knows
EntPlanIds == {"basic", "pro", "premium", "premium_plus", "enterprise"}

\* the Subscription table of u1: none, an active one, an expired one, a cancelled one
EntSubs ==
    {<<>>}
    \cup {<<ActiveSub("u1", p, NoExpiry)>> : p \in EntPlanIds}
    \cup {<<ActiveSub("u1", "pro", 1)>>}
    \cup {<<[ActiveSub("u1", "pro", NoExpiry) EXCEPT !.status = "cancelled"]>>}

RowCounts(content_type) ==
    IF content_type = "video" THEN 0..MaxVideoRows ELSE 0..MaxImageRows

InitEnt ==
    /\ now = Day + 2
    /\ tz \in TzOffsets
    /\ \E ct \in {"video", "image"} :
         \E n \in RowCounts(ct), st \in EntStatuses, sz \in EntSizes,
            created \in {Day - 4, Day + 1}, extras \in EntExtras :
               downloads = EntHistory(ct, n, st, sz, created, extras)
    /\ subs \in EntSubs
    /\ bg = [i \in 1..Len(downloads) |-> NoThread]
    /\ cancelReq = [i \in 1..Len(downloads) |-> "idle"]
    /\ retryReq = [i \in 1..Len(downloads) |-> "idle"]
    /\ suspend = FALSE
    /\ lastSubmit = NoSubmit
    /\ decision = NoDecision
    /\ probe = NoProbe
    /\ ex = NoEx
    /\ reqs = NoReqs

\* monetization_manager.can_download(user, content_type) is called
Evaluate(user, content_type) ==
    /\ decision' = [user |-> user, content_type |-> content_type,
                    allowed |-> can_download(user, content_type)]
    /\ UNCHANGED <<downloads, subs, bg, cancelReq, retryReq, reqs, now, tz, suspend, lastSubmit, probe, ex>>

\* callers: the users, flask-login's anonymous user, and None
Principals == Users \cup {"anonymous", NULL}

NextEnt == \E u \in Principals, ct \in {"video", "image"} : Evaluate(u, ct)

SpecEnt == InitEnt /\ [][NextEnt]_vars

(***************************************************************************)
(* process_download (src/web/tasks.py 12-59): a worker processes a row     *)
(* that was stored with the column default status 'queued'.                *)
(***************************************************************************)
\* a row inserted without a status (models/__init__.py line 85: default 'queued')
QueuedRow(user, url, quality) ==
    [NewDownload(user, url, PlatformOf[url], quality, ContentTypeOf[url])
        EXCEPT !.status = "queued"]

TaskThread == [pc |-> "task", retry_count |-> 0]

\* lines 43-48: status, file_path and completed_at are written, nothing else
WriteTaskCompleted(row) ==
    [row EXCEPT !.status = "completed", !.file_path = "file", !.completed_at = now]

\* str(e) of the exception process_download catches (lines 30, 51, 53-57)
TaskMessage(platform, outcome) ==
    IF get_downloader(platform) = NULL THEN "No downloader available"
    ELSE IF outcome = "none" THEN "Download failed - no file was saved"
    ELSE RaisedMessage(platform)

\* lines 17-25: the row is read, set to 'downloading' and committed
ProcessBegin(id) ==
    /\ id \in 1..Len(downloads)
    /\ bg[id].pc = "none"
    /\ downloads[id].status = "queued"
    /\ downloads' = [downloads EXCEPT ![id].status = "downloading"]
    /\ bg' = [bg EXCEPT ![id] = TaskThread]
    /\ UNCHANGED <<subs, cancelReq, retryReq, reqs, now, tz, suspend, lastSubmit, decision, probe, ex>>

\* lines 27-59: the strategy is called without callbacks and without extra_opts
ProcessFinish(id, outcome) ==
    /\ id \in 1..Len(downloads)
    /\ bg[id].pc = "task"
    /\ outcome \in StrategyOutcomes(downloads[id].platform, downloads[id].url, FALSE)
    /\ downloads' = [downloads EXCEPT ![id] =
           IF outcome = "path" THEN WriteTaskCompleted(@)
           ELSE WriteFailedException(@, TaskMessage(downloads[id].platform, outcome))]
    /\ bg' = [bg EXCEPT ![id].pc = "done"]
    /\ UNCHANGED <<subs, cancelReq, retryReq, reqs, now, tz, suspend, lastSubmit, decision, probe, ex>>

InitTask ==
    /\ now = NowStart
    /\ \E u \in Users, url \in {x \in Urls : PlatformOf[x] # NULL}, q \in Qualities :
           downloads = <<QueuedRow(u, url, q)>>
    /\ subs = <<ProSub>>
    /\ bg = <<NoThread>>
    /\ cancelReq = <<"idle">>
    /\ retryReq = <<"idle">>
    /\ tz = 0
    /\ suspend \in BOOLEAN
    /\ lastSubmit = NoSubmit
    /\ decision = NoDecision
    /\ probe = NoProbe
    /\ ex = NoEx
    /\ reqs = NoReqs

NextTask ==
    \/ \E id \in 1..Len(downloads) : ProcessBegin(id)
    \/ \E id \in 1..Len(downloads), o \in {"path", "none", "raise"} : ProcessFinish(id, o)
    \/ \E u \in Users, id \in 1..Len(downloads) : CancelCheck(u, id)
    \/ \E id \in 1..Len(downloads) : CancelWrite(id)
    \/ \E u \in Users, id \in 1..Len(downloads) : RetryBegin(u, id)
    \/ \E id \in 1..Len(downloads), o \in {"path", "none", "raise"}, sz \in FileSizes :
           RetryFinish(id, o, sz)

SpecTask == InitTask /\ [][NextTask]_vars

(***************************************************************************)
(* One admitted job followed to its end.  The state after /download has    *)
(* admitted a request is the initial state; every call of the extraction   *)
(* returns or raises, and a request that has read its row goes on to its   *)
(* commit, which is what the fairness conditions say.                      *)
(***************************************************************************)
AdmittedSubmit(user, url, quality) ==
    [user |-> user, url |-> url, quality |-> quality, content_type |-> ContentTypeOf[url],
     free |-> (effective_plan_id(user) = "free"), outcome |-> "admitted", id |-> 1]

InitLive ==
    /\ now = NowStart
    /\ tz = 0
    /\ subs = <<ProSub>>
    /\ suspend \in BOOLEAN
    /\ decision = NoDecision
    /\ probe = NoProbe
    /\ ex = NoEx
    /\ reqs = NoReqs
    /\ \E u \in Users, url \in Urls, q \in Qualities :
         /\ PlatformOf[url] # NULL
         /\ ~(PlatformOf[url] = "youtube" /\ suspend)
         /\ downloads = <<NewDownload(u, url, PlatformOf[url], q, ContentTypeOf[url])>>
         /\ lastSubmit = AdmittedSubmit(u, url, q)
    /\ bg = <<[pc |-> "run", retry_count |-> 0]>>
    /\ cancelReq = <<"idle">>
    /\ retryReq = <<"idle">>

AttemptEndSome(id) ==
    \E o \in {"path", "none", "raise"}, sz \in FileSizes : AttemptEnd(id, o, sz)

RetryFinishSome(id) ==
    \E o \in {"path", "none", "raise"}, sz \in FileSizes : RetryFinish(id, o, sz)

NextLive ==
    \/ \E id \in 1..Len(downloads), d \in HookEvents : ProgressEvent(id, d)
    \/ \E id \in 1..Len(downloads) : AttemptEndSome(id)
    \/ \E u \in Users, id \in 1..Len(downloads) : CancelCheck(u, id)
    \/ \E id \in 1..Len(downloads) : CancelWrite(id)
    \/ \E u \in Users, id \in 1..Len(downloads) : RetryBegin(u, id)
    \/ \E id \in 1..Len(downloads) : RetryFinishSome(id)

LiveIds == {1}

SpecLive ==
    /\ InitLive
    /\ [][NextLive]_vars
    /\ \A id \in LiveIds :
         /\ WF_vars(AttemptEndSome(id))
         /\ WF_vars(RetryFinishSome(id))
         /\ WF_vars(CancelWrite(id))

(***************************************************************************)
(* identify_platform on its own: it is applied to URLs put together from   *)
(* a scheme, a host and a path.                                            *)
(***************************************************************************)

\* the domains identify_platform looks for, by platform tag
PlatformDomains ==
    [youtube |-> {Str.youtube_com, Str.youtu_be},
     facebook |-> {Str.facebook_com, Str.fb_com, Str.fb_watch},
     instagram |-> {Str.instagram_com},
     twitter |-> {Str.twitter_com, Str.x_com},
     tiktok |-> {Str.tiktok_com},
     vimeo |-> {Str.vimeo_com},
     dailymotion |-> {Str.dailymotion_com, Str.dai_ly},
     pinterest |-> {Str.pinterest_com, Str.pin_it},
     linkedin |-> {Str.linkedin_com}]

PlatformTags == DOMAIN PlatformDomains

SupportedDomains == UNION {PlatformDomains[t] : t \in PlatformTags}

\* hosts: a supported domain, a subdomain of it, and names that merely contain
\* it; two unrelated hosts; a host in upper case
IdHosts ==
    SupportedDomains
    \cup {Str.www \o d : d \in SupportedDomains}
    \cup {Str.not \o d : d \in SupportedDomains}
    \cup {d \o Str.dot_org : d \in SupportedDomains}
    \cup {Str.netflix_com, Str.example_com, Str.YOUTUBE_COM}

\* with a scheme, without one, with an unmatched bracket in the authority, empty
IdUrls ==
    {sch \o h \o Str.path : sch \in {Str.https, Str.http, <<>>}, h \in IdHosts}
    \cup {Str.https \o <<"[">> \o d \o Str.path : d \in SupportedDomains}
    \cup {<<>>}

InitId ==
    /\ downloads = <<>>
    /\ subs = <<>>
    /\ bg = <<>>
    /\ cancelReq = <<>>
    /\ retryReq = <<>>
    /\ now = NowStart
    /\ tz = 0
    /\ suspend = FALSE
    /\ lastSubmit = NoSubmit
    /\ decision = NoDecision
    /\ probe = NoProbe
    /\ ex = NoEx
    /\ reqs = NoReqs

\* identify_platform(url) is called
Identify(url) ==
    /\ probe' = [fn |-> "identify_platform", arg |-> url, result |-> identify_platform(url)]
    /\ UNCHANGED <<downloads, subs, bg, cancelReq, retryReq, reqs, now, tz, suspend,
                   lastSubmit, decision, ex>>

NextId == \E url \in IdUrls : Identify(url)

SpecId == InitId /\ [][NextId]_vars

(***************************************************************************)
(* The format selector of download_with_ytdlp (ytdlp_helper.py 62-86) and  *)
(* what the extractor picks with it from the formats a page offers.  A     *)
(* selector "a/b/c" is the sequence of its alternatives; an alternative is *)
(* a format class (best, bestvideo, bv*, bestaudio), an optional height    *)
(* filter, an optional ext filter and an optional "+ba" merge.             *)
(***************************************************************************)
MaxFormats == 3

\* values of the quality argument
Q ==
    [q1080p |-> <<"1","0","8","0","p">>,
     q720p |-> <<"7","2","0","p">>,
     q480p |-> <<"4","8","0","p">>,
     q360p |-> <<"3","6","0","p">>,
     q720P |-> <<"7","2","0","P">>,
     Best |-> <<"B","e","s","t">>,
     q4K |-> <<"4","K">>,
     Audio_Only |-> <<"A","u","d","i","o"," ","O","n","l","y">>]

FmtQualities == {Q.q1080p, Q.q720p, Q.q480p, Q.q360p, Q.q720P, Q.Best, Q.q4K, Q.Audio_Only, <<>>}
MediaTypes == {"auto", "video", "image", "audio"}

AudioNames == {<<"a","u","d","i","o">>, <<"a","u","d","i","o"," ","o","n","l","y">>,
               <<"a","u","d","i","o","-","o","n","l","y">>}
HeightNames == {Q.q1080p, Q.q720p, Q.q480p, Q.q360p}

\* str.replace(old, "") for a one-character old
replace(s, old) == SelectSeq(s, LAMBDA c : c # old)

Digits == <<"0","1","2","3","4","5","6","7","8","9">>

\* the number a height filter reads from the digits put into the selector
RECURSIVE ToInt(_)
ToInt(s) ==
    IF s = <<>> THEN 0
    ELSE 10 * ToInt(SubSeq(s, 1, Len(s) - 1))
         + (CHOOSE d \in 0..9 : Digits[d + 1] = s[Len(s)])

Alt(class, op, height, ext, merge) ==
    [class |-> class, op |-> op, height |-> height, ext |-> ext, merge |-> merge]

\* the selector fmt of lines 65-86
format_selector(media_type, quality, ffmpeg_available) ==
    LET best == Alt("best", "any", 0, "any", FALSE)
        bestaudio == Alt("bestaudio", "any", 0, "any", FALSE)
        default == IF ffmpeg_available
                   THEN <<Alt("bestvideo", "any", 0, "any", TRUE), best>>
                   ELSE <<Alt("best", "any", 0, "mp4", FALSE), best>>
        q == lower(quality)
    IN  IF media_type = "image" THEN <<Alt("best", "<=", 4096, "any", FALSE), best>>
        ELSE IF media_type = "audio" THEN <<bestaudio, best>>
        ELSE IF quality = <<>> THEN default
        ELSE IF q \in AudioNames THEN <<bestaudio, best>>
        ELSE IF q \in HeightNames
        THEN LET height == replace(q, "p") IN
             IF ffmpeg_available
             THEN <<Alt("bv*", "=", ToInt(height), "any", TRUE),
                    Alt("best", "=", ToInt(height), "any", FALSE),
                    Alt("bv*", "any", 0, "any", TRUE),
                    best>>
             ELSE LET h == IF q = Q.q1080p THEN <<"7","2","0">> ELSE height IN
                  <<Alt("best", "=", ToInt(h), "mp4", FALSE),
                    Alt("best", "<=", ToInt(h), "mp4", FALSE),
                    Alt("best", "any", 0, "mp4", FALSE),
                    best>>
        ELSE default

\* the formats a page can offer: pre-muxed (video and audio), video-only, audio-only
FormatHeights == {480, 720, 1080, 2160}
AudioFormat == [kind |-> "audio", height |-> 0, ext |-> "m4a"]
FormatUniverse ==
    {[kind |-> "muxed", height |-> h, ext |-> e] : h \in FormatHeights, e \in {"mp4", "webm"}}
    \cup {[kind |-> "video", height |-> h, ext |-> "webm"] : h \in FormatHeights}
    \cup {AudioFormat}
FormatSets == {F \in SUBSET FormatUniverse : Cardinality(F) \in 1..MaxFormats}

\* every offered format is video-only, or every one is audio-only
IncompleteFormats(formats) ==
    \/ \A f \in formats : f.kind = "video"
    \/ \A f \in formats : f.kind = "audio"

PassesFilters(alt, f) ==
    /\ alt.op = "=" => (f.kind # "audio" /\ f.height = alt.height)
    /\ alt.op = "<=" => (f.kind # "audio" /\ f.height <= alt.height)
    /\ alt.ext # "any" => f.ext = alt.ext

InClass(class, f) ==
    CASE class = "best" -> f.kind = "muxed"
      [] class = "bestvideo" -> f.kind = "video"
      [] class = "bv*" -> f.kind \in {"muxed", "video"}
      [] class = "bestaudio" -> f.kind = "audio"

\* the formats one alternative can take; best falls back to any format when
\* the page offers only video-only or only audio-only formats
Matches(alt, formats) ==
    LET filtered == {f \in formats : PassesFilters(alt, f)}
        inClass == {f \in filtered : InClass(alt.class, f)}
    IN  IF inClass = {} /\ alt.class = "best" /\ IncompleteFormats(formats)
        THEN filtered
        ELSE inClass

NoFormat == [kind |-> "none", height |-> 0, ext |-> "none"]

\* the best of a set of formats: one of the greatest height
BestOf(S) == CHOOSE f \in S : \A g \in S : f.height >= g.height

\* the format an alternative yields, NoFormat when it yields none; "+ba" needs
\* an audio-only format as well
AltPick(alt, formats) ==
    LET m == Matches(alt, formats) IN
    IF m = {} THEN NoFormat
    ELSE IF alt.merge /\ AudioFormat \notin formats THEN NoFormat
    ELSE BestOf(m)

\* the first alternative of the selector that yields a format decides
RECURSIVE SelectorPick(_, _)
SelectorPick(fmt, formats) ==
    IF fmt = <<>> THEN NoFormat
    ELSE IF AltPick(Head(fmt), formats) # NoFormat THEN AltPick(Head(fmt), formats)
    ELSE SelectorPick(Tail(fmt), formats)

InitFmt ==
    /\ downloads = <<>>
    /\ subs = <<>>
    /\ bg = <<>>
    /\ cancelReq = <<>>
    /\ retryReq = <<>>
    /\ now = NowStart
    /\ tz = 0
    /\ suspend = FALSE
    /\ lastSubmit = NoSubmit
    /\ decision = NoDecision
    /\ probe = NoProbe
    /\ ex = NoEx
    /\ reqs = NoReqs

\* one extraction with the selector built for the arguments
SelectFormat(media_type, quality, ffmpeg_available, formats) ==
    /\ probe' = [fn |-> "format_selector",
                 arg |-> <<media_type, quality, ffmpeg_available, formats>>,
                 result |-> SelectorPick(format_selector(media_type, quality, ffmpeg_available),
                                         formats)]
    /\ UNCHANGED <<downloads, subs, bg, cancelReq, retryReq, reqs, now, tz, suspend, lastSubmit,
                   decision, ex>>

NextFmt ==
    /\ probe.fn = NULL
    /\ ex = NoEx
    /\ \E media_type \in MediaTypes, quality \in FmtQualities, ffmpeg_available \in BOOLEAN,
       formats \in FormatSets :
        SelectFormat(media_type, quality, ffmpeg_available, formats)

SpecFmt == InitFmt /\ [][NextFmt]_vars

(***************************************************************************)
(* One strategy call on its own: the platform, the environment, the cookie *)
(* sources, the caller's extra options and the cancel hook are drawn.      *)
(***************************************************************************)
\* extra_opts of a caller: None, the dict of run_download_task for youtube
\* (src/app.py 317-327), and a dict with options of the caller's own
CallerOpts ==
    {EmptyOpts,
     Dict({<<"retries", "15">>, <<"extractor_retries", "10">>}),
     Dict({<<"socket_timeout", "10">>, <<"verbose", "False">>,
           <<"extract_flat", "False">>, <<"force_generic_extractor", "True">>})}

InitDl ==
    /\ downloads = <<>>
    /\ subs = <<>>
    /\ bg = <<>>
    /\ cancelReq = <<>>
    /\ retryReq = <<>>
    /\ now = NowStart
    /\ tz = 0
    /\ suspend = FALSE
    /\ lastSubmit = NoSubmit
    /\ decision = NoDecision
    /\ probe = NoProbe
    /\ reqs = NoReqs
    /\ \E platform \in StratPlatforms, env \in Environments, cfg_browser \in {Absent, "chrome"},
          cwd_cookies \in BOOLEAN, root_cookies \in BOOLEAN, makedirs_ok \in BOOLEAN,
          caller \in CallerOpts, cancel \in BOOLEAN :
         ex = [NoEx EXCEPT !.platform = platform, !.env = env, !.cfg_browser = cfg_browser,
                           !.cwd_cookies = cwd_cookies, !.root_cookies = root_cookies,
                           !.makedirs_ok = makedirs_ok, !.caller = caller,
                           !.cancel = cancel, !.pc = "call"]

NextDl ==
    \/ StrategyBegin
    \/ \E outcome \in ExtractOutcomes : ExtractEnds(outcome)

SpecDl == InitDl /\ [][NextDl]_vars

(***************************************************************************)
(* The operations on the Subscription table: the routes /subscribe (588),  *)
(* /payment/complete (673) and /change_subscription (928) of src/app.py    *)
(* and activate_subscription (305) and cancel_subscription (348) of        *)
(* MonetizationManager.                                                    *)
(***************************************************************************)
MaxSubs == 3

\* Subscription.query.filter_by(user_id=...).first(): the oldest row of the
\* user whatever its status, 0 for None
first_sub(user) ==
    LET mine == {i \in 1..Len(subs) : subs[i].user_id = user}
    IN  IF mine = {} THEN 0 ELSE CHOOSE i \in mine : \A k \in mine : i <= k

\* POST /subscribe/<plan_id>: a row is added, whatever rows the user has
subscribe(user, plan_id) ==
    /\ Len(subs) < MaxSubs
    /\ subs' = Append(subs, ActiveSub(user, plan_id, NoExpiry))
    /\ UNCHANGED <<downloads, bg, cancelReq, retryReq, reqs, now, tz, suspend, lastSubmit, decision, probe, ex>>

\* POST /payment/complete: a row is added for a plan that exists and has a price
payment_complete(user, plan_id) ==
    /\ Len(subs) < MaxSubs
    /\ plan_id \in PlanIds
    /\ subscription_plans[plan_id].price # 0
    /\ subs' = Append(subs, ActiveSub(user, plan_id, NoExpiry))
    /\ UNCHANGED <<downloads, bg, cancelReq, retryReq, reqs, now, tz, suspend, lastSubmit, decision, probe, ex>>

\* POST /change_subscription: the oldest row of the user is rewritten when it
\* is active; otherwise the request ends in a redirect and writes nothing
change_subscription(user, plan_id) ==
    /\ plan_id \in PlanIds
    /\ first_sub(user) # 0
    /\ is_active(subs[first_sub(user)])
    /\ subs' = [subs EXCEPT ![first_sub(user)].plan_id = plan_id,
                             ![first_sub(user)].status = "active"]
    /\ UNCHANGED <<downloads, bg, cancelReq, retryReq, reqs, now, tz, suspend, lastSubmit, decision, probe, ex>>

\* MonetizationManager.activate_subscription: create or update the oldest row
activate_subscription(user, plan_id) ==
    /\ IF first_sub(user) = 0
       THEN /\ Len(subs) < MaxSubs
            /\ subs' = Append(subs, ActiveSub(user, plan_id, now + 30 * Day))
       ELSE subs' = [subs EXCEPT ![first_sub(user)].plan_id = plan_id,
                                 ![first_sub(user)].status = "active",
                                 ![first_sub(user)].expires_at = now + 30 * Day]
    /\ UNCHANGED <<downloads, bg, cancelReq, retryReq, reqs, now, tz, suspend, lastSubmit, decision, probe, ex>>

\* MonetizationManager.cancel_subscription: the oldest row is set to 'cancelled'
cancel_subscription(user) ==
    /\ first_sub(user) # 0
    /\ subs' = [subs EXCEPT ![first_sub(user)].status = "cancelled"]
    /\ UNCHANGED <<downloads, bg, cancelReq, retryReq, reqs, now, tz, suspend, lastSubmit, decision, probe, ex>>

InitSub ==
    /\ downloads = <<>>
    /\ subs = <<>>
    /\ bg = <<>>
    /\ cancelReq = <<>>
    /\ retryReq = <<>>
    /\ now = NowStart
    /\ tz = 0
    /\ suspend = FALSE
    /\ lastSubmit = NoSubmit
    /\ decision = NoDecision
    /\ probe = NoProbe
    /\ ex = NoEx
    /\ reqs = NoReqs

NextSub ==
    \/ \E u \in Users, p \in PlanIds : subscribe(u, p)
    \/ \E u \in Users, p \in PlanIds : payment_complete(u, p)
    \/ \E u \in Users, p \in PlanIds : change_subscription(u, p)
    \/ \E u \in Users, p \in PlanIds : activate_subscription(u, p)
    \/ \E u \in Users : cancel_subscription(u)

SpecSub == InitSub /\ [][NextSub]_vars

(***************************************************************************)
(* The routes that take a job id (src/app.py): /api/downloads/<id>/status  *)
(* (466), /serve/file/<id> (481), /download_file/<id> (791),               *)
(* /delete_download/<id> (815), /cancel_download/<id> (840) and            *)
(* /retry_download/<id> (863), each as one request of a logged-in user.    *)
(* A deleted row keeps its place in `downloads`, so that ids stay what     *)
(* they are, with status "deleted"; no query finds it.  `probe` holds the  *)
(* request and its response: a code and the data of the job it carries.    *)
(***************************************************************************)
\* Download.query.get_or_404(download_id) finds a row
exists(id) == id \in 1..Len(downloads) /\ downloads[id].status # "deleted"

Response(code, data) == [code |-> code, data |-> data]

\* the response of a route to a request it turns away before it acts: 404,
\* or the answer to a user who is not the owner; "pass" when it goes on
guard(user, id, denied) ==
    IF ~exists(id) THEN Response("404", <<>>)
    ELSE IF downloads[id].user_id # user THEN Response(denied, <<>>)
    ELSE Response("pass", <<>>)

api_download_status(user, id) ==
    /\ probe' = [fn |-> "api_download_status", arg |-> <<user, id>>,
                 result |-> IF guard(user, id, "forbidden").code # "pass"
                            THEN guard(user, id, "forbidden")
                            ELSE Response("200", <<downloads[id].status, downloads[id].progress,
                                                   downloads[id].file_path # NULL,
                                                   downloads[id].error_message>>)]
    /\ UNCHANGED <<downloads, subs, bg, cancelReq, retryReq, reqs, now, tz, suspend, lastSubmit, decision, ex>>

serve_download_file(user, id) ==
    /\ probe' = [fn |-> "serve_download_file", arg |-> <<user, id>>,
                 result |-> IF guard(user, id, "Access denied").code # "pass"
                            THEN guard(user, id, "Access denied")
                            ELSE IF downloads[id].status # "completed"
                                    \/ downloads[id].file_path = NULL
                            THEN Response("File not available for download", <<>>)
                            ELSE Response("send_file", <<downloads[id].file_path>>)]
    /\ UNCHANGED <<downloads, subs, bg, cancelReq, retryReq, reqs, now, tz, suspend, lastSubmit, decision, ex>>

download_file(user, id) ==
    /\ probe' = [fn |-> "download_file", arg |-> <<user, id>>,
                 result |-> IF guard(user, id, "Access denied").code # "pass"
                            THEN guard(user, id, "Access denied")
                            ELSE IF downloads[id].status # "completed"
                                    \/ downloads[id].file_path = NULL
                            THEN Response("File not available for download", <<>>)
                            ELSE Response("send_file", <<downloads[id].file_path>>)]
    /\ UNCHANGED <<downloads, subs, bg, cancelReq, retryReq, reqs, now, tz, suspend, lastSubmit, decision, ex>>

\* a route that deletes whatever row the id names
delete_download_no_owner_check(user, id) ==
    /\ id \in 1..Len(downloads)
    /\ probe' = [fn |-> "delete_download", arg |-> <<user, id>>,
                 result |-> IF ~exists(id) THEN Response("404", <<>>)
                            ELSE Response("Download deleted", <<>>)]
    /\ downloads' = IF ~exists(id) THEN downloads
                    ELSE [downloads EXCEPT ![id].status = "deleted", ![id].file_path = NULL]
    /\ UNCHANGED <<subs, bg, cancelReq, retryReq, reqs, now, tz, suspend, lastSubmit, decision, ex>>

\* the file is removed and the row deleted
delete_download(user, id) ==
    /\ id \in 1..Len(downloads)
    /\ probe' = [fn |-> "delete_download", arg |-> <<user, id>>,
                 result |-> IF guard(user, id, "Access denied").code # "pass"
                            THEN guard(user, id, "Access denied")
                            ELSE Response("Download deleted", <<>>)]
    /\ downloads' = IF guard(user, id, "Access denied").code # "pass" THEN downloads
                    ELSE [downloads EXCEPT ![id].status = "deleted", ![id].file_path = NULL]
    /\ UNCHANGED <<subs, bg, cancelReq, retryReq, reqs, now, tz, suspend, lastSubmit, decision, ex>>

\* the whole request: guards, then the status write
cancel_download(user, id) ==
    /\ id \in 1..Len(downloads)
    /\ LET g == guard(user, id, "Access denied")
           act == g.code = "pass" /\ downloads[id].status = "downloading" IN
       /\ probe' = [fn |-> "cancel_download", arg |-> <<user, id>>,
                    result |-> IF g.code # "pass" THEN g
                               ELSE IF ~act THEN Response("Download is not in progress", <<>>)
                               ELSE Response("Download cancelled", <<>>)]
       /\ downloads' = IF act THEN [downloads EXCEPT ![id].status = "cancelled"]
                       ELSE downloads
    /\ UNCHANGED <<subs, bg, cancelReq, retryReq, reqs, now, tz, suspend, lastSubmit, decision, ex>>

\* the whole request: guards, the write of 'downloading', the extraction the
\* request runs itself and the write of its end
retry_download(user, id, outcome, sz) ==
    /\ id \in 1..Len(downloads)
    /\ LET g == guard(user, id, "Access denied")
           act == g.code = "pass" /\ downloads[id].status = "failed"
           begun == [downloads[id] EXCEPT !.status = "downloading", !.error_message = NULL] IN
       /\ act => outcome \in StrategyOutcomes(downloads[id].platform, downloads[id].url, FALSE)
       /\ probe' = [fn |-> "retry_download", arg |-> <<user, id>>,
                    result |-> IF g.code # "pass" THEN g
                               ELSE IF ~act
                               THEN Response("Only failed downloads can be retried", <<>>)
                               ELSE IF outcome = "path"
                               THEN Response("Download completed successfully!", <<>>)
                               ELSE IF outcome = "none"
                               THEN Response("Download failed. Please try again.", <<>>)
                               ELSE Response("Download failed", <<RaisedMessage(downloads[id].platform)>>)]
       /\ downloads' = IF ~act THEN downloads
                       ELSE [downloads EXCEPT ![id] =
                                IF outcome = "path" THEN WriteCompleted(begun, sz)
                                ELSE IF outcome = "none" THEN [begun EXCEPT !.status = "failed"]
                                ELSE WriteFailedException(begun, RaisedMessage(downloads[id].platform))]
    /\ UNCHANGED <<subs, bg, cancelReq, retryReq, reqs, now, tz, suspend, lastSubmit, decision, ex>>

\* jobs of u1 that are completed, failed and in progress, and a completed job of u2
InitOwn ==
    /\ now = NowStart
    /\ downloads = <<HistoryRow("u1", Url.youtube, "completed", 100, NowStart - 1),
                     HistoryRow("u1", Url.tiktok, "failed", 100, NowStart - 1),
                     HistoryRow("u1", Url.pinterest, "downloading", 100, NowStart - 1),
                     HistoryRow("u2", Url.youtube, "completed", 100, NowStart - 1)>>
    /\ subs = <<ProSub>>
    /\ bg = [i \in 1..Len(downloads) |-> NoThread]
    /\ cancelReq = [i \in 1..Len(downloads) |-> "idle"]
    /\ retryReq = [i \in 1..Len(downloads) |-> "idle"]
    /\ tz = 0
    /\ suspend = FALSE
    /\ lastSubmit = NoSubmit
    /\ decision = NoDecision
    /\ probe = NoProbe
    /\ ex = NoEx
    /\ reqs = NoReqs

NextOwn ==
    \/ \E u \in Users, id \in 1..Len(downloads) : api_download_status(u, id)
    \/ \E u \in Users, id \in 1..Len(downloads) : serve_download_file(u, id)
    \/ \E u \in Users, id \in 1..Len(downloads) : download_file(u, id)
    \/ \E u \in Users, id \in 1..Len(downloads) : delete_download(u, id)
    \/ \E u \in Users, id \in 1..Len(downloads) : cancel_download(u, id)
    \/ \E u \in Users, id \in 1..Len(downloads), o \in {"path", "none", "raise"},
          sz \in FileSizes : retry_download(u, id, o, sz)

SpecOwn == InitOwn /\ [][NextOwn]_vars

(***************************************************************************)
(* Submissions and deletions of the users, one request after the other:    *)
(* /download, /delete_download/<id> and /clear_history (src/app.py 756).   *)
(***************************************************************************)
\* Download.query.filter_by(user_id=current_user.id).delete()
clear_history(user) ==
    /\ probe' = [fn |-> "clear_history", arg |-> <<user>>,
                 result |-> Response("Download history cleared.", <<>>)]
    /\ downloads' = [i \in 1..Len(downloads) |->
                        IF downloads[i].user_id = user
                        THEN [downloads[i] EXCEPT !.status = "deleted"] ELSE downloads[i]]
    /\ UNCHANGED <<subs, bg, cancelReq, retryReq, reqs, now, tz, suspend, lastSubmit, decision, ex>>

NextOps ==
    \/ \E u \in Users, url \in Urls, q \in Qualities : download(u, url, q)
    \/ \E u \in Users, id \in 1..Len(downloads) : delete_download(u, id)
    \/ \E u \in Users : clear_history(u)

SpecOps == Init /\ [][NextOps]_vars

(***************************************************************************)
(* Requests that run at the same time.  /download and /retry_download read *)
(* the table, decide, and commit later; each gunicorn worker               *)
(* (gunicorn_config.py 15) serves its request on a session of its own, so  *)
(* other requests read and commit in between.  A request occupies a slot   *)
(* of `reqs` from its read to its last commit.                             *)
(***************************************************************************)
\* /download, lines 241-276: the request is checked against the rows that are
\* committed now and goes on to its insert
SubmitCheck(r, user, url, quality) ==
    /\ reqs[r].pc = "idle"
    /\ Cardinality(NewRows) + Cardinality({k \in DOMAIN reqs : reqs[k].pc = "admitted"})
          < MaxInflight
    /\ Admission(user, url) = "admitted"
    /\ reqs' = [reqs EXCEPT ![r] = [pc |-> "admitted", user |-> user, url |-> url,
                                     quality |-> resolve_quality(user, ContentTypeOf[url], quality),
                                     id |-> 0]]
    /\ UNCHANGED <<downloads, subs, bg, cancelReq, retryReq, now, tz, suspend, lastSubmit, decision, probe, ex>>

\* lines 279-393: the row is committed and its thread started
SubmitInsert(r) ==
    /\ reqs[r].pc = "admitted"
    /\ downloads' = Append(downloads,
                           NewDownload(reqs[r].user, reqs[r].url, PlatformOf[reqs[r].url],
                                       reqs[r].quality, ContentTypeOf[reqs[r].url]))
    /\ bg' = Append(bg, [pc |-> "run", retry_count |-> 0])
    /\ cancelReq' = Append(cancelReq, "idle")
    /\ retryReq' = Append(retryReq, "idle")
    /\ reqs' = [reqs EXCEPT ![r] = NoReq]
    /\ UNCHANGED <<subs, now, tz, suspend, lastSubmit, decision, probe, ex>>

\* /retry_download, lines 867-877: the row is read and passes the guards
RetryCheck(r, user, id) ==
    /\ reqs[r].pc = "idle"
    /\ exists(id)
    /\ downloads[id].user_id = user
    /\ downloads[id].status = "failed"
    /\ reqs' = [reqs EXCEPT ![r] = [NoReq EXCEPT !.pc = "retry_checked", !.user = user, !.id = id]]
    /\ UNCHANGED <<downloads, subs, bg, cancelReq, retryReq, now, tz, suspend, lastSubmit, decision, probe, ex>>

\* lines 880-897: 'downloading' is committed and the request calls the strategy
RetryCommit(r) ==
    /\ reqs[r].pc = "retry_checked"
    /\ downloads' = [downloads EXCEPT ![reqs[r].id].status = "downloading",
                                      ![reqs[r].id].error_message = NULL]
    /\ reqs' = [reqs EXCEPT ![r].pc = "retry_running"]
    /\ UNCHANGED <<subs, bg, cancelReq, retryReq, now, tz, suspend, lastSubmit, decision, probe, ex>>

\* lines 900-922: the strategy has ended and the request commits its outcome
RetryEnd(r, outcome, sz) ==
    /\ reqs[r].pc = "retry_running"
    /\ outcome \in StrategyOutcomes(downloads[reqs[r].id].platform, downloads[reqs[r].id].url, FALSE)
    /\ downloads' = [downloads EXCEPT ![reqs[r].id] =
           IF outcome = "path" THEN WriteCompleted(@, sz)
           ELSE IF outcome = "none" THEN [@ EXCEPT !.status = "failed"]
           ELSE WriteFailedException(@, RaisedMessage(@.platform))]
    /\ reqs' = [reqs EXCEPT ![r] = NoReq]
    /\ UNCHANGED <<subs, bg, cancelReq, retryReq, now, tz, suspend, lastSubmit, decision, probe, ex>>

\* u1, on the free plan, has four video jobs of today, the last of them failed
InitRace ==
    /\ now = NowStart
    /\ downloads = [i \in 1..4 |-> HistoryRow("u1", Url.youtube,
                                               IF i = 4 THEN "failed" ELSE "completed",
                                               100, NowStart - 1)]
    /\ subs = <<ProSub>>
    /\ bg = [i \in 1..Len(downloads) |-> NoThread]
    /\ cancelReq = [i \in 1..Len(downloads) |-> "idle"]
    /\ retryReq = [i \in 1..Len(downloads) |-> "idle"]
    /\ tz = 0
    /\ suspend = FALSE
    /\ lastSubmit = NoSubmit
    /\ decision = NoDecision
    /\ probe = NoProbe
    /\ ex = NoEx
    /\ reqs = NoReqs

NextRace ==
    \/ \E r \in DOMAIN reqs, u \in Users, url \in {Url.youtube, Url.pinterest} :
           SubmitCheck(r, u, url, "480p")
    \/ \E r \in DOMAIN reqs : SubmitInsert(r)
    \/ \E r \in DOMAIN reqs, u \in Users, id \in 1..Len(downloads) : RetryCheck(r, u, id)
    \/ \E r \in DOMAIN reqs : RetryCommit(r)
    \/ \E r \in DOMAIN reqs, o \in {"path", "none", "raise"}, sz \in FileSizes :
           RetryEnd(r, o, sz)

SpecRace == InitRace /\ [][NextRace]_vars

(***************************************************************************)
(* Properties.                                                             *)
(***************************************************************************)
\* the user has no subscription that is active and unexpired
FreeTier(user) ==
    \A i \in 1..Len(subs) :
        subs[i].user_id = user =>
            ~(subs[i].status = "active"
              /\ (subs[i].expires_at = NoExpiry \/ subs[i].expires_at >= now))

\* the user's active, unexpired subscription is for one of the paid plans
PaidPlan(user, plan_id) ==
    \E i \in 1..Len(subs) :
        /\ subs[i].user_id = user /\ subs[i].plan_id = plan_id
        /\ subs[i].status = "active"
        /\ (subs[i].expires_at = NoExpiry \/ subs[i].expires_at >= now)

\* the user's rows of a content type created since the start of today, of any status
RowsToday(user, content_type) ==
    {i \in 1..Len(downloads) :
        /\ downloads[i].user_id = user
        /\ downloads[i].content_type = content_type
        /\ downloads[i].created_at >= today}

\* bytes (MiB) of the user's completed jobs created since the start of today
CompletedBytesToday(user) ==
    SumSize({i \in 1..Len(downloads) :
                /\ downloads[i].user_id = user
                /\ downloads[i].status = "completed"
                /\ downloads[i].created_at >= today})

FreeQuota(content_type) == IF content_type = "video" THEN 5 ELSE 10

C1_CancelledIsFinal ==
    [][\A id \in 1..Len(downloads) :
          downloads[id].status = "cancelled" => downloads'[id].status = "cancelled"]_vars

AllowedTransitions ==
    {<<"queued", "downloading">>, <<"downloading", "completed">>,
     <<"downloading", "failed">>, <<"downloading", "cancelled">>,
     <<"failed", "downloading">>}

\* C2: the status of a job changes only along queued->downloading,
\* downloading->completed, downloading->failed, downloading->cancelled and
\* failed->downloading; 'completed' and 'cancelled' are never left and no job
\* returns to 'queued'.
C2_StatusTransitions ==
    [][\A id \in 1..Len(downloads) :
          \/ downloads'[id].status = downloads[id].status
          \/ <<downloads[id].status, downloads'[id].status>> \in AllowedTransitions]_vars

\* C5: an admitted job of a free-tier user with video content and a requested
\* quality of 1080p, 2160p, 4K or Best is persisted with quality 720p; every
\* other admitted job is persisted with the requested quality.
C5_QualityClamp ==
    lastSubmit.outcome = "admitted" =>
        downloads[lastSubmit.id].quality =
            IF lastSubmit.free /\ lastSubmit.content_type = "video"
               /\ lastSubmit.quality \in HighQualities
            THEN "720p" ELSE lastSubmit.quality

\* a step in which an extraction attempt for row id starts: the row is created
\* by /download, or a retry request sets it to 'downloading'
ExtractionStarts(id) ==
    \/ id > Len(downloads)
    \/ (id <= Len(downloads) /\ retryReq[id] = "idle" /\ retryReq'[id] = "running")

\* C6: every step that starts an extraction attempt for a job (its submission or
\* a retry) is taken in a state in which can_download holds for the owner and
\* the job's content type.
C6_EveryAttemptGated ==
    [][\A id \in 1..Len(downloads') :
          ExtractionStarts(id) =>
              can_download(downloads'[id].user_id, downloads'[id].content_type)]_vars

\* the URL of a row is one its platform's strategy accepts
StrategyAcceptsUrl(row) ==
    get_downloader(row.platform) # NULL =>
        clean_url_ok(get_downloader(row.platform), row.url)

\* C7: a denied submission (unrecognized platform, suspended platform, quota)
\* leaves the Download table unchanged, and no row is ever created for a URL
\* that the platform's strategy rejects.
C7_DenialsCreateNoRow ==
    [][/\ (lastSubmit' # lastSubmit /\ lastSubmit'.outcome # "admitted")
              => downloads' = downloads
       /\ \A id \in 1..Len(downloads') : StrategyAcceptsUrl(downloads'[id])]_vars

\* C8: while a job stays in status 'downloading' its persisted progress never decreases.
C8_ProgressMonotone ==
    [][\A id \in 1..Len(downloads) :
          (downloads[id].status = "downloading" /\ downloads'[id].status = "downloading")
              => downloads'[id].progress >= downloads[id].progress]_vars

\* C9: file_path is set if and only if status is 'completed'.
C9_FilePathIffCompleted ==
    \A id \in 1..Len(downloads) :
        (downloads[id].file_path # NULL) <=> (downloads[id].status = "completed")

\* C10: every failed job has a non-empty error message.
C10_FailedHasMessage ==
    \A id \in 1..Len(downloads) :
        downloads[id].status = "failed" => downloads[id].error_message \notin {NULL, ""}

\* C11: every job whose status is 'completed' has a size, progress 100 and a
\* completion timestamp.
C11_CompletedHasSize ==
    \A id \in 1..Len(downloads) :
        downloads[id].status = "completed" =>
            /\ downloads[id].size # NoSize
            /\ downloads[id].progress = 100
            /\ downloads[id].completed_at # NoStamp

TerminalStatuses == {"completed", "failed", "cancelled"}

\* C12: every admitted job eventually reaches a terminal status (completed,
\* failed or cancelled), as long as every call of the extraction returns or raises.
C12_EventuallyTerminal ==
    \A id \in LiveIds :
        (downloads[id].status = "downloading") ~> (downloads[id].status \in TerminalStatuses)

\* the background thread has used up its three attempts and has written 'failed'
C12_Witness ==
    /\ bg[1].pc = "done" /\ bg[1].retry_count = max_retries
    /\ downloads[1].status = "failed"

HostChars == SchemeChars \ {"+"}

StartsWith(s, pre) ==
    Len(s) >= Len(pre) /\ SubSeq(s, 1, Len(pre)) = pre

EndsWith(s, suf) ==
    Len(s) >= Len(suf) /\ SubSeq(s, Len(s) - Len(suf) + 1, Len(s)) = suf

\* an http(s) URL whose authority is a plain host name
ValidUrl(url) ==
    /\ StartsWith(url, Str.https) \/ StartsWith(url, Str.http)
    /\ Len(netloc(url)) > 0
    /\ \A i \in 1..Len(netloc(url)) : netloc(url)[i] \in HostChars

\* the host of the URL is one of the platform's domains or a subdomain of one
HostBelongsTo(url, tag) ==
    LET host == lower(netloc(url)) IN
    \E d \in PlatformDomains[tag] : host = d \/ EndsWith(host, <<".">> \o d)

\* C13: for a valid URL identify_platform returns tag P when the host is a
\* domain or subdomain of platform P, and None when the host is a domain or
\* subdomain of no supported platform.
C13_IdentifyByHost ==
    (probe.fn = "identify_platform" /\ ValidUrl(probe.arg)) =>
        /\ \A tag \in PlatformTags : HostBelongsTo(probe.arg, tag) => probe.result = tag
        /\ (\A tag \in PlatformTags : ~HostBelongsTo(probe.arg, tag)) => probe.result = NULL

\* C14: identify_platform never raises, and returns None for the empty string
\* and for input without a host or with a malformed authority.
C14_IdentifyTotal ==
    probe.fn = "identify_platform" =>
        /\ probe.result # ValueError
        /\ (Len(probe.arg) = 0 \/ ~ValidUrl(probe.arg)) => probe.result = NULL

\* C15: for every job the background thread handles, get_downloader yields a
\* strategy whose download accepts the orchestrator's call (url, save_path,
\* quality, the two callbacks and extra_opts), and no such job is failed with
\* the message of a dispatch or signature error.
C15_UniformCallContract ==
    \A id \in 1..Len(downloads) :
        bg[id].pc \in {"run", "done"} =>
            /\ get_downloader(downloads[id].platform) # NULL
            /\ AcceptsExtraOpts(get_downloader(downloads[id].platform))
            /\ downloads[id].error_message # RaisedMessage(downloads[id].platform)

\* C16: can_download is false for every caller that is not an authenticated
\* user (the anonymous user, None), for both content types and whatever rows
\* are stored.
C16_UnauthenticatedDenied ==
    (decision.content_type # NULL /\ decision.user \notin Users) => ~decision.allowed

\* the anonymous user asked for an image while the table holds rows
C16_Witness ==
    /\ decision.user = "anonymous" /\ decision.content_type = "image"
    /\ Len(downloads) > 0
    /\ ~decision.allowed

\* C17: a user with an active pro subscription is never denied a video or an
\* image, and a user with an active basic subscription is never denied an
\* image, whatever the number of rows created today.
C17_UnlimitedNoCeiling ==
    decision.user \in Users =>
        /\ PaidPlan(decision.user, "pro") => decision.allowed
        /\ (PaidPlan(decision.user, "basic") /\ decision.content_type = "image")
               => decision.allowed

\* a basic user with eleven image rows today is allowed another image
C17_Witness ==
    /\ decision.user = "u1" /\ decision.content_type = "image"
    /\ PaidPlan("u1", "basic")
    /\ Cardinality(RowsToday("u1", "image")) = MaxImageRows
    /\ decision.allowed

\* the instant of local midnight of the current day, on the UTC clock that
\* stamps created_at
LocalMidnightUtc == today - tz

RowsSinceLocalMidnight(user, content_type) ==
    {i \in 1..Len(downloads) :
        /\ downloads[i].user_id = user
        /\ downloads[i].content_type = content_type
        /\ downloads[i].created_at >= LocalMidnightUtc}

CompletedBytesSinceLocalMidnight(user) ==
    SumSize({i \in 1..Len(downloads) :
                /\ downloads[i].user_id = user
                /\ downloads[i].status = "completed"
                /\ downloads[i].created_at >= LocalMidnightUtc})

\* C18: the daily window is the local calendar day: for a free-tier user the
\* decision is the one obtained by counting exactly the jobs whose creation
\* instant is at or after local midnight of the current day, for every offset
\* between the local clock and the UTC clock.
C18_LocalDayWindow ==
    (decision.user \in Users /\ FreeTier(decision.user)) =>
        (decision.allowed <=>
            /\ Cardinality(RowsSinceLocalMidnight(decision.user, decision.content_type))
                   < FreeQuota(decision.content_type)
            /\ CompletedBytesSinceLocalMidnight(decision.user) < 3 * 1024)

\* the plan id of the user's active, unexpired subscription, NULL without one
ActivePlanId(user) ==
    IF \E i \in 1..Len(subs) :
          /\ subs[i].user_id = user /\ subs[i].status = "active"
          /\ (subs[i].expires_at = NoExpiry \/ subs[i].expires_at >= now)
    THEN LET i == CHOOSE i \in 1..Len(subs) :
                     /\ subs[i].user_id = user /\ subs[i].status = "active"
                     /\ (subs[i].expires_at = NoExpiry \/ subs[i].expires_at >= now)
         IN  subs[i].plan_id
    ELSE NULL

\* the tier a stored plan id stands for
TierOf(plan_id) ==
    IF plan_id \in {"basic", "premium"} THEN "basic"
    ELSE IF plan_id \in {"pro", "premium_plus"} THEN "pro"
    ELSE "free"

\* the decision of a tier: free count quotas and the 3 GiB cap, 30 videos a day
\* on basic, no ceiling otherwise
TierDecision(tier, user, content_type) ==
    IF tier = "pro" THEN TRUE
    ELSE IF tier = "basic"
         THEN content_type = "image" \/ Cardinality(RowsToday(user, content_type)) < 30
    ELSE /\ Cardinality(RowsToday(user, content_type)) < FreeQuota(content_type)
         /\ CompletedBytesToday(user) < 3 * 1024

C20_ClampBeforeRow ==
    \A id \in 1..Len(downloads) :
        (FreeTier(downloads[id].user_id) /\ downloads[id].content_type = "video") =>
            /\ downloads[id].quality \notin HighQualities
            /\ downloads[id].video_quality \notin HighQualities

\* a step of the background thread of row id in which a strategy invocation
\* ended without a path and without raising: the loop counted it, and the
\* strategy of the row raises for no input of the model
CleanMissingResult(id) ==
    /\ bg'[id].retry_count = bg[id].retry_count + 1
    /\ "raise" \notin StrategyOutcomes(downloads[id].platform, downloads[id].url, TRUE)

\* C21: the background thread re-invokes the strategy only after an invocation
\* that raised; after an invocation that returned cleanly without a result
\* (None or a path that does not exist) the thread makes no further invocation
\* and the job is marked failed.
C21_RetryOnlyOnRaise ==
    [][\A id \in 1..Len(downloads) :
          CleanMissingResult(id) =>
              (bg'[id].pc = "done" /\ downloads'[id].status = "failed")]_vars

\* a step in which a strategy invocation of the background thread of row id ends
InvocationEnds(id) == bg'[id] # bg[id]

C30_CancelledHasNoMessage ==
    \A id \in 1..Len(downloads) :
        downloads[id].status = "cancelled" => downloads[id].error_message = NULL

\* the extraction of the probe was made for video content with one of the
\* four named heights, and it picked a format
HeightRequested ==
    /\ probe.fn = "format_selector"
    /\ probe.arg[1] \in {"auto", "video"}
    /\ probe.arg[2] \in HeightNames
    /\ probe.result # NoFormat

RequestedHeight == ToInt(replace(probe.arg[2], "p"))

\* the heights of the offered formats that carry video
OfferedHeights == {f.height : f \in {g \in probe.arg[4] : g.kind # "audio"}}

\* C28: for a requested quality of 1080p, 720p, 480p or 360p the picked format
\* has the requested height when a format of that height is offered, otherwise
\* the greatest offered height below it, and never a height above the
\* requested one, with and without ffmpeg.
C28_HeightAtOrBelow ==
    HeightRequested =>
        /\ probe.result.height <= RequestedHeight
        /\ RequestedHeight \in OfferedHeights => probe.result.height = RequestedHeight
        /\ \A h \in OfferedHeights :
               h <= RequestedHeight => probe.result.height >= h

\* C29: without ffmpeg the selector built for video content picks no format
\* above 720p, whatever video quality is requested ('Best', an unrecognized
\* value and '1080p' included), and what it picks is pre-muxed
\* whenever a pre-muxed format is offered.
C29_NoMuxCap ==
    (/\ probe.fn = "format_selector"
     /\ probe.arg[1] \in {"auto", "video"}
     /\ lower(probe.arg[2]) \notin AudioNames
     /\ probe.arg[3] = FALSE
     /\ probe.result # NoFormat)
        => /\ probe.result.height <= 720
           /\ (\E f \in probe.arg[4] : f.kind = "muxed") => probe.result.kind = "muxed"

\* C23: for youtube and instagram, whenever the first tier ends without a
\* result (the helper returned None or raised) and without a cancellation, the
\* second tier is attempted: the strategy has returned only after tier 2.
C23_TieredFallback ==
    (/\ ex.pc = "done"
     /\ ex.platform \in {"youtube", "instagram"}
     /\ ex.tier1 \in {"None", "OSError"}
     /\ ex.last # "cancelled")
        => ex.tier = 2

\* C24: when the hook raised the cancellation in an extraction, the helper
\* call returned None and nothing was raised to the caller of the strategy,
\* in the helper's first attempt and in its cookie-less second attempt, in
\* either tier.
C24_CancelReturnsNone ==
    ex.last = "cancelled" => (ex.hret = "None" /\ ex.result # "KeyboardInterrupt")

\* C25: a path returned by the helper names a file that exists and is larger
\* than min_size = 1024 bytes, on every return path.
C25_ReturnedFileQualifies ==
    ex.hret = "path" => (ex.file.exists /\ ex.file.size > min_size)

\* an environment some component treats as production or containerized
ProductionOrContainer(env) ==
    (env.var \in EnvVarNames /\ env.value # "") \/ env.marker \in MarkerFiles

BrowserCookiesEnabled(opts) == opts["cookiesfrombrowser"] \notin {Absent, "None"}

\* C26: in a production or containerized environment no extraction is made
\* with browser-cookie extraction enabled.
C26_NoBrowserCookiesInProd ==
    (ex.pc = "extract" /\ ProductionOrContainer(ex.env)) => ~BrowserCookiesEnabled(ex.opts)

\* the options of the platform and of the helper when the caller gives none
PlatformDefaults == strategy_opts(ex.platform, ex.tier, ex.env, ex.root_cookies, EmptyOpts)
GenericBaseline == helper_opts(ex.env, ex.cfg_browser, ex.cwd_cookies, EmptyOpts)

\* C27: in every extraction, each option the caller supplied has the caller's
\* value; in the first extraction of a helper call, every other option has
\* the platform default if there is one and the generic baseline otherwise.
C27_OptionPrecedence ==
    ex.pc = "extract" =>
        \A k \in OptKeys :
            IF ex.caller[k] # Absent THEN ex.opts[k] = ex.caller[k]
            ELSE ex.attempt = 1 =>
                     ex.opts[k] = IF PlatformDefaults[k] # Absent THEN PlatformDefaults[k]
                                  ELSE GenericBaseline[k]

\* C32: the progress stored on a job is within 0..100 in every reachable
\* state, whatever progress events the extraction emits, including events
\* whose downloaded byte count exceeds the reported total.
C32_ProgressInRange ==
    \A id \in 1..Len(downloads) : downloads[id].progress \in 0..100

\* a progress event has put the job at 100 while its thread still runs and no
\* file is recorded
C32_Witness ==
    /\ bg[1].pc = "run"
    /\ downloads[1].status = "downloading"
    /\ downloads[1].progress = 100
    /\ downloads[1].file_path = NULL

\* platform tags of sites that serve videos only
VideoPlatforms == {"youtube", "tiktok", "vimeo", "dailymotion"}

\* C36: the content type of a job depends only on its platform: a job whose
\* platform is a video platform has content type 'video' and a video_quality,
\* whatever the path or query of its URL holds; and video_quality is null
\* exactly when the content type is 'image'.
C36_ContentTypeByPlatform ==
    \A id \in 1..Len(downloads) :
        /\ downloads[id].platform \in VideoPlatforms =>
               (downloads[id].content_type = "video" /\ downloads[id].video_quality # NULL)
        /\ (downloads[id].video_quality = NULL) <=> (downloads[id].content_type = "image")

\* C37: the quality clamp of /download decides by the tier can_download
\* decides by: for a user whose tier is free (no subscription, a cancelled or
\* expired one, an unknown plan label) a high quality is stored as 720p, and
\* for a user whose label stands for basic or pro the quality is stored as
\* requested.
C37_SamePlanBothChecks ==
    \A u \in Users, q \in HighQualities :
        resolve_quality(u, "video", q) =
            IF TierOf(ActivePlanId(u)) = "free" THEN "720p" ELSE q

\* C38: after an extraction in which the cancel hook returned true, no further
\* extraction of the call is running: the helper makes no second attempt and
\* the strategy does not enter its next tier.
C38_NoAttemptAfterCancel ==
    ex.last = "cancelled" => ex.pc = "done"


\* rows of the user in the Subscription table with status 'active'
ActiveRecords(user) == {i \in 1..Len(subs) : subs[i].user_id = user /\ subs[i].status = "active"}

\* C33: after any sequence of subscribe, payment_complete, change_subscription,
\* activate_subscription and cancel_subscription, every user has at most one
\* Subscription row with status 'active'.
C33_AtMostOneActive ==
    \A u \in Users : Cardinality(ActiveRecords(u)) <= 1

\* the routes that take a job id
JobOperations ==
    {"api_download_status", "serve_download_file", "download_file", "cancel_download",
     "retry_download", "delete_download"}

Extracting(id) ==
    (IF bg[id].pc = "run" THEN 1 ELSE 0)
    + Cardinality({r \in DOMAIN reqs : reqs[r].pc = "retry_running" /\ reqs[r].id = id})

\* C31: at any time at most one execution unit, the background thread of the
\* job or a retry request, is running an extraction for a job, also when two
\* retry requests for the same failed job arrive at the same time.
C31_OneExtractionPerJob ==
    \A id \in 1..Len(downloads) : Extracting(id) <= 1

\* C34: however the submissions of a free-tier user interleave, the user's
\* Download rows of one content type created today never number more than the
\* daily quota of the type, 5 videos and 10 images.
C34_QuotaUnderConcurrency ==
    \A u \in Users, ct \in {"video", "image"} :
        FreeTier(u) =>
            Cardinality({i \in RowsToday(u, ct) : exists(i)}) <= FreeQuota(ct)

\* C35: over any sequence of submissions, delete_download and clear_history
\* requests, the submissions of one content type that were admitted for a
\* free-tier user today, the rows still in the table and the rows deleted
\* since, never number more than the daily quota of the type.
C35_DeletionKeepsQuota ==
    \A u \in Users, ct \in {"video", "image"} :
        FreeTier(u) => Cardinality(RowsToday(u, ct)) <= FreeQuota(ct)

=============================================================================
